---- MODULE Spec2Model ----
(***************************************************************************)
(* Model of the flow execution engine of sitesTool.                        *)
(*                                                                         *)
(* Part 1 (specification Spec / FairSpec): the execution supervisor,       *)
(*   backend/app/services/automation/executor.py (AutomationExecutor) and  *)
(*   backend/app/services/automation/process_manager.py (ProcessManager).  *)
(*   API calls run on worker threads (the routes are plain "def" routes),  *)
(*   every started execution has a daemon completion thread, and nothing   *)
(*   in either file takes a lock, so the threads interleave between the    *)
(*   calls they make on the process manager.                               *)
(*                                                                         *)
(* Part 2 (specification ExecSpec): the step loop of                       *)
(*   backend/app/services/automation/playwright_executor.py                *)
(*   (PlaywrightExecutor.execute) and the output of run_automation.py.     *)
(*                                                                         *)
(* Part 3 (specification ParseSpec): the DSL parser,                       *)
(*   backend/app/services/automation/dsl_parser.py (DSLParser.parse).      *)
(*                                                                         *)
(* Part 4 (specification RunSpec / FairRunSpec): one execution process,    *)
(*   backend/run_automation.py: parse, the session setup of execute with   *)
(*   backend/app/services/automation/browser_launcher.py, the step loop,   *)
(*   the cleanup, the exit status and the record the supervisor writes.    *)
(*                                                                         *)
(* Part 5 (specification ClassifySpec): the error taxonomy,                *)
(*   backend/app/services/automation/error_types.py (classify_error and    *)
(*   get_error_display_info).                                              *)
(*                                                                         *)
(* Part 6 (specification ScopeSpec): the variables of an execution and the *)
(*   nested steps, playwright_executor.py (_resolve_variables,             *)
(*   _handle_loop, _handle_if_else, _execute_child_step).                  *)
(*                                                                         *)
(* Part 7 (specifications DetectSpec and CfSpec): the challenge handler,   *)
(*   backend/app/services/automation/cloudflare_handler.py, and the        *)
(*   places of the step loop of execute that call it.                      *)
(*                                                                         *)
(* Part 8 (specification ShareSpec): several executions attached to the    *)
(*   same browser, playwright_executor.py (attach and cleanup of execute)  *)
(*   and backend/app/services/automation/cdp_shared_executor.py.           *)
(*                                                                         *)
(* Part 9 (specification AssertSpec): the assert_text step of              *)
(*   playwright_executor.py and the kind its failure is recorded with.     *)
(*                                                                         *)
(* Part 10 (specification HSpec / FairHSpec): one call of                  *)
(*   check_and_handle of cloudflare_handler.py and its three handlers,     *)
(*   with the time they spend.                                             *)
(*                                                                         *)
(* Part 11 (specification CmSpec): the record wait_for_completion of       *)
(*   executor.py writes from the output of the execution process.          *)
(*                                                                         *)
(* Part 12 (specification LimSpec / FairLimSpec): the calls of             *)
(*   execute_with_concurrency_control of cdp_shared_executor.py on one     *)
(*   SharedBrowserExecutor.                                                *)
(*                                                                         *)
(* Part 13 (specification TabSpec): the page of an execution and the       *)
(*   steps new_tab, switch_tab and close_tab of playwright_executor.py.    *)
(***************************************************************************)
EXTENDS Integers, Sequences, FiniteSets, Bags, TLC

\* ---------------------------------------------------------------- bounds
NumFlows == 2
NumCallers == 2
MaxProcs == 2
MaxSteps == 3
MaxChildRuns == 2
MaxDocSteps == 2
MaxDocChildren == 1
MaxRunSteps == 2
MaxPages == 2
MaxPolls == 2
MaxTextLen == 3
MaxScopeSteps == 2
MaxTimes == 2
MaxMarkers == 2
MaxCfSteps == 2
NumExecs == 4
MaxOutSteps == 2
max_wait_time == 3
MaxChecks == 2
MaxActualLen == 2

\* steps of one execution that work with tabs
MaxTabSteps == 3

Flows == 1..NumFlows
Callers == 1..NumCallers
Pids == 1..MaxProcs
NoPid == 0

VARIABLES
    processes,   \* ProcessManager._processes: flow id -> pid (NoPid = no entry)
    proc,        \* the OS processes: pid -> [flow, state, exit, sigterm]
    cpc,         \* caller thread -> position inside its trigger / stop call
    cop,         \* caller thread -> the API operation it is running
    cflow,       \* caller thread -> flow argument of that operation
    ctarget,     \* caller thread -> process read by stop_process
    last,        \* the trigger / stop call that returned last: [op, ret]
    hpc,         \* completion thread of pid -> position in wait_for_completion
    htarget,     \* completion thread of pid -> process read by stop_process
    history      \* the CheckinHistory table: a bag of records

supVars == <<processes, proc, cpc, cop, cflow, ctarget, last,
             hpc, htarget, history>>

VARIABLES
    steps,          \* the parsed top-level steps handed to execute
    xpc,            \* position of the executor: "loop", "cleanup", "done"
    idx,            \* index of the step the loop is at
    step_results,   \* ExecutionResult.step_results
    steps_failed,   \* the steps_failed counter of execute
    attempted,      \* top-level step indexes in the order they were run
    closed,         \* number of times the cleanup block has run
    result          \* the dict printed by run_flow (NoResult before)

execVars == <<steps, xpc, idx, step_results, steps_failed, attempted,
              closed, result>>

VARIABLES
    cleft,          \* child executions a loop / if_else handler still has to run
    child_runs,     \* calls of _execute_child_step made so far
    child_failed    \* those that returned {"success": False}

nestVars == <<cleft, child_runs, child_failed>>

VARIABLES
    doc,            \* the DSL document given to parse (dsl_json, decoded)
    parsed          \* what parse did with it: the steps, or the error raised

parseVars == <<doc, parsed>>

VARIABLES
    use_cdp_mode,   \* the use_cdp_mode argument of execute (attached mode)
    browser,        \* the persistent browser process behind the CDP port
    launched,       \* BrowserManager.process is set: start_browser did the Popen
    cdp,            \* the browser answers /json/version on the CDP port
    endpoint,       \* whether a browser that is started will ever answer
    foreign,        \* some other process holds the CDP port
    polls,          \* iterations of the readiness loop of start_browser
    pages,          \* page id -> "absent" / "open" / "closed"; id 0 is the
                    \* page execute creates, the others existed before
    connected,      \* execute holds a browser object (launched or attached)
    close_error,    \* context.close() raised in the cleanup
    cause,          \* why the session setup failed
    setup_error,    \* the exception that left run_flow
    exit_code,      \* exit status of the run_automation process
    persisted       \* status of the record wait_for_completion wrote

sessVars == <<use_cdp_mode, browser, launched, cdp, endpoint, foreign, polls,
              pages, connected, close_error, cause, setup_error, exit_code,
              persisted>>

runVars == <<execVars, nestVars, parseVars, sessVars>>

VARIABLES
    error,          \* the error handed to classify_error: [type, message]
    error_type,     \* the ErrorType asked about: classify_error's return value
    info            \* what get_error_display_info returned for error_type

clsVars == <<error, error_type, info>>

VARIABLES
    variables,      \* the variables dict of execute, in insertion order
    page_text,      \* the text content of the element "#title" of the page
    executed,       \* the top-level step run last, with what its handler did
    scope_steps     \* number of top-level steps run

scopeVars == <<variables, page_text, executed, scope_steps>>

VARIABLES
    cf_enabled,     \* CloudflareHandler.enabled (cf_protection)
    cf_steps,       \* the kinds of the steps execute was handed
    cf_idx,         \* index of the step the loop of execute is at
    cf_pc,          \* "pre": before the pre-step check, "step", "done", "off"
    cf_log,         \* navigations made and challenge checks run, in order
    page,           \* the page: its title and its elements
    challenge       \* what _detect_challenge_type returned last

cfVars == <<cf_enabled, cf_steps, cf_idx, cf_pc, cf_log, page, challenge>>

VARIABLES
    sh_pc,          \* execution -> "idle", "newpage", "running", "done"
    sh_page,        \* execution -> the page its steps run on (NoPage before)
    sh_closed,      \* execution -> the pages its cleanup closed
    ctx_pages       \* context.pages of the default context of the browser

shareVars == <<sh_pc, sh_page, sh_closed, ctx_pages>>

VARIABLES
    cm_in,          \* what communicate() gave wait_for_completion
    cm_rec          \* the CheckinHistory record wait_for_completion wrote

cmVars == <<cm_in, cm_rec>>

VARIABLES
    h_pc,           \* where check_and_handle is: "idle" (not called), the
                    \* handler that is polling, or "returned"
    h_type,         \* challenge_type of check_and_handle: the first detection
    h_seen,         \* what _detect_challenge_type answered last
    h_clock,        \* seconds since check_and_handle was entered
    h_start,        \* start_time of the handler that is polling
    h_timeout,      \* the timeout argument of the handler that is polling
    h_clicks,       \* clicks made on the page during the check
    h_result,       \* the dict check_and_handle returned
    h_step          \* number of checks the step loop has gone past

hVars == <<h_pc, h_type, h_seen, h_clock, h_start, h_timeout, h_clicks,
           h_result, h_step>>

VARIABLES
    lim_pc,         \* call of execute_with_concurrency_control -> "idle"
                    \* (not made), "waiting", "connecting", "executing",
                    \* "closing", "returned", "raised"
    semaphore,      \* _semaphore: its value and the waiters in arrival order
    lim_out,        \* call -> how its try block ended: "-", "result",
                    \* "exception"
    active_connections  \* _active_connections

limVars == <<lim_pc, semaphore, lim_out, active_connections>>

VARIABLES
    tab_page,       \* the local page of execute the handlers are called with
    tab_pages,      \* context.pages: the open pages in the order of opening
    tab_front,      \* the page in front
    tab_last,       \* the result of the last step: its type, its success and
                    \* the page it acted on
    tab_steps       \* number of steps the loop has executed

tabVars == <<tab_page, tab_pages, tab_front, tab_last, tab_steps>>

moreVars == <<cmVars, hVars, limVars, tabVars>>

notCm == <<hVars, limVars, tabVars>>

notH == <<cmVars, limVars, tabVars>>

notLim == <<cmVars, hVars, tabVars>>

notTab == <<cmVars, hVars, limVars>>

earlierVars == <<supVars, runVars, clsVars, scopeVars, cfVars, shareVars>>

auxVars == <<clsVars, scopeVars, cfVars, shareVars, moreVars>>

vars == <<supVars, runVars, auxVars>>

\* ------------------------------------------------------------ supervisor

\* process.returncode once the process has ended: run_automation.py exits 0
\* or 1, a signalled or killed process has a negative return code
ExitCodes == {"zero", "nonzero"}

\* what communicate() reads from the standard output of a process that
\* exited 0: a JSON document whose status is "success", one whose status is
\* not "success", text that is not JSON, or JSON on which the completion
\* code raises (executor.py:94-135)
Outputs == {"success", "failed", "malformed", "badshape"}

UnbornProc == [flow |-> 0, state |-> "unborn", exit |-> "none", sigterm |-> FALSE]

NoCall == [op |-> "none", ret |-> "none"]

Tracked(f) == processes[f] # NoPid

\* process.poll() is None
Alive(p) == proc[p].state = "alive"

\* is_running with the poll() test inverted
is_running_PollInverted(f) == Tracked(f) /\ ~Alive(processes[f])

\* ProcessManager.is_running: the value returned
is_running(f) == Tracked(f) /\ Alive(processes[f])

\* ProcessManager.is_running: the registry it leaves behind
PruneOne(f) ==
    IF Tracked(f) /\ ~Alive(processes[f])
    THEN [processes EXCEPT ![f] = NoPid]
    ELSE processes

\* get_running_flows without the clean-up of finished processes
PruneAll_NoCleanup == processes

\* ProcessManager.get_running_flows: the registry it leaves behind
PruneAll ==
    [f \in Flows |-> IF Tracked(f) /\ ~Alive(processes[f]) THEN NoPid
                     ELSE processes[f]]

\* ProcessManager.get_running_flows: the value returned
get_running_flows == {f \in Flows : PruneAll[f] # NoPid}

\* process.terminate(): a signal to a live process, nothing otherwise
Terminate(p) ==
    IF Alive(p) THEN [proc EXCEPT ![p].sigterm = TRUE] ELSE proc

\* process.wait(timeout=5), escalating to kill() + wait() when it expires
WaitOrKill(p) ==
    IF Alive(p)
    THEN [proc EXCEPT ![p].state = "exited", ![p].exit = "nonzero",
                      ![p].sigterm = FALSE]
    ELSE proc

SupInit ==
    /\ processes = [f \in Flows |-> NoPid]
    /\ proc = [p \in Pids |-> UnbornProc]
    /\ cpc = [c \in Callers |-> "idle"]
    /\ cop = [c \in Callers |-> "none"]
    /\ cflow = [c \in Callers |-> 0]
    /\ ctarget = [c \in Callers |-> NoPid]
    /\ last = NoCall
    /\ hpc = [p \in Pids |-> "none"]
    /\ htarget = [p \in Pids |-> NoPid]
    /\ history = EmptyBag

\* the call of thread c returns status "ret"; the thread serves one call
Return(c, op, ret) ==
    /\ last' = [op |-> op, ret |-> ret]
    /\ cpc' = [cpc EXCEPT ![c] = "done"]
    /\ cop' = [cop EXCEPT ![c] = "none"]
    /\ cflow' = [cflow EXCEPT ![c] = 0]
    /\ ctarget' = [ctarget EXCEPT ![c] = NoPid]

\* the call of thread c goes on to position "pc"
Goto(c, op, f, pc, target) ==
    /\ cpc' = [cpc EXCEPT ![c] = pc]
    /\ cop' = [cop EXCEPT ![c] = op]
    /\ cflow' = [cflow EXCEPT ![c] = f]
    /\ ctarget' = [ctarget EXCEPT ![c] = target]
    /\ UNCHANGED last

\* a trigger or stop request arrives and is given to the next worker thread
Begin(c) ==
    /\ cpc[c] = "idle"
    /\ \A d \in Callers : d < c => cpc[d] # "idle"

\* trigger, executor.py:38-42: the "already running" check
TriggerCheck(c, f) ==
    /\ Begin(c)
    /\ processes' = PruneOne(f)
    /\ IF is_running(f)
       THEN Return(c, "trigger", "running")
       ELSE Goto(c, "trigger", f, "t_start", NoPid)
    /\ UNCHANGED <<proc, hpc, htarget, history>>
    /\ UNCHANGED <<runVars, auxVars>>

\* start_process, process_manager.py:46-47: its own check (RuntimeError is
\* turned into "running" by executor.py:197-199)
StartProcessCheck(c) ==
    /\ cpc[c] = "t_start"
    /\ processes' = PruneOne(cflow[c])
    /\ IF is_running(cflow[c])
       THEN Return(c, "trigger", "running")
       ELSE Goto(c, "trigger", cflow[c], "t_popen", NoPid)
    /\ UNCHANGED <<proc, hpc, htarget, history>>
    /\ UNCHANGED <<runVars, auxVars>>

\* start_process, process_manager.py:50-67, then executor.py:188-195:
\* Popen succeeds, the process is registered, the completion thread starts
StartProcessSpawn(c) ==
    /\ cpc[c] = "t_popen"
    /\ \E p \in Pids :
        /\ proc[p].state = "unborn"
        /\ \A q \in Pids : q < p => proc[q].state # "unborn"
        /\ proc' = [proc EXCEPT ![p] = [flow |-> cflow[c], state |-> "alive",
                                        exit |-> "none", sigterm |-> FALSE]]
        /\ processes' = [processes EXCEPT ![cflow[c]] = p]
        /\ hpc' = [hpc EXCEPT ![p] = "waiting"]
    /\ Return(c, "trigger", "started")
    /\ UNCHANGED <<htarget, history>>
    /\ UNCHANGED <<runVars, auxVars>>

\* start_process, process_manager.py:50-56: Popen raises; executor.py:201-203
\* catches it and goes on to stop_process(flow.id)
StartProcessFails(c) ==
    /\ cpc[c] = "t_popen"
    /\ Goto(c, "trigger", cflow[c], "sp_begin", NoPid)
    /\ UNCHANGED <<processes, proc, hpc, htarget, history>>
    /\ UNCHANGED <<runVars, auxVars>>

\* stop without the "not running" early return
StopCheck_NoIdle(c, f) ==
    /\ Begin(c)
    /\ processes' = PruneOne(f)
    /\ Goto(c, "stop", f, "sp_begin", NoPid)
    /\ UNCHANGED <<proc, hpc, htarget, history>>
    /\ UNCHANGED <<runVars, auxVars>>

\* stop, executor.py:217-221: the "is it running" check
StopCheck(c, f) ==
    /\ Begin(c)
    /\ processes' = PruneOne(f)
    /\ IF is_running(f)
       THEN Goto(c, "stop", f, "sp_begin", NoPid)
       ELSE Return(c, "stop", "idle")
    /\ UNCHANGED <<proc, hpc, htarget, history>>
    /\ UNCHANGED <<runVars, auxVars>>

\* what the caller of stop_process returns: stop (executor.py:223-235) maps
\* True to "stopped", False and an exception to "failed"; the except branch
\* of trigger (executor.py:203-204) returns "failed" whatever happened
AfterStopProcess(op, ok) ==
    IF op = "stop" /\ ok THEN "stopped" ELSE "failed"

\* stop_process, process_manager.py:79-88, on a caller thread
CallerStopBegin(c) ==
    /\ cpc[c] = "sp_begin"
    /\ IF ~Tracked(cflow[c])
       THEN /\ Return(c, cop[c], AfterStopProcess(cop[c], FALSE))
            /\ UNCHANGED proc
       ELSE /\ Goto(c, cop[c], cflow[c], "sp_end", processes[cflow[c]])
            /\ proc' = Terminate(processes[cflow[c]])
    /\ UNCHANGED <<processes, hpc, htarget, history>>
    /\ UNCHANGED <<runVars, auxVars>>

\* stop_process, process_manager.py:89-106, on a caller thread: the wait,
\* the kill after the grace period, and the del of the finally block, which
\* raises KeyError when the entry is gone
CallerStopEnd(c) ==
    /\ cpc[c] = "sp_end"
    /\ proc' = WaitOrKill(ctarget[c])
    /\ processes' = [processes EXCEPT ![cflow[c]] = NoPid]
    /\ Return(c, cop[c], AfterStopProcess(cop[c], Tracked(cflow[c])))
    /\ UNCHANGED <<hpc, htarget, history>>
    /\ UNCHANGED <<runVars, auxVars>>

\* is_running, executor.py:241-243, called for a status request: it answers
\* is_running(f) and leaves the registry pruned
QueryIsRunning(f) ==
    /\ processes' = PruneOne(f)
    /\ UNCHANGED <<proc, cpc, cop, cflow, ctarget, last, hpc, htarget, history>>
    /\ UNCHANGED <<runVars, auxVars>>

\* get_running_flows, executor.py:245-247, called for a status request: it
\* answers get_running_flows and leaves the registry pruned
QueryRunningFlows ==
    /\ processes' = PruneAll
    /\ UNCHANGED <<proc, cpc, cop, cflow, ctarget, last, hpc, htarget, history>>
    /\ UNCHANGED <<runVars, auxVars>>

\* the execution process ends, by itself or on the signal it was sent
ProcessExits(p) ==
    /\ Alive(p)
    /\ \E e \in ExitCodes :
        proc' = [proc EXCEPT ![p].state = "exited", ![p].exit = e,
                             ![p].sigterm = FALSE]
    /\ UNCHANGED <<processes, cpc, cop, cflow, ctarget, last,
                   hpc, htarget, history>>
    /\ UNCHANGED <<runVars, auxVars>>

\* wait_for_completion, executor.py:92-143 and 164-176: where the error
\* message of the record comes from: none (success), the failed steps of the
\* output, the fixed "Invalid JSON output", the process's stderr (or the
\* fixed "Execution failed"), or the text of the exception caught at 164
ErrorSource(rc, out, timedOut) ==
    IF timedOut THEN "exception"
    ELSE IF rc # "zero" THEN "stderr"
    ELSE IF out = "success" THEN "none"
    ELSE IF out = "failed" THEN "steps"
    ELSE IF out = "malformed" THEN "invalid_json"
    ELSE "exception"

\* wait_for_completion, executor.py:146-160 and 169-179: the CheckinHistory
\* record; "exec" is the execution that wrote it
OutcomeRecord(p, out, timedOut) ==
    LET err == ErrorSource(proc[p].exit, out, timedOut) IN
    [flow_id |-> proc[p].flow,
     exec |-> p,
     status |-> IF err = "none" THEN "success" ELSE "failed",
     has_error |-> err # "none"]

\* wait_for_completion with communicate() called without a timeout
HandlerComplete_NoTimeout(p) ==
    /\ hpc[p] = "waiting"
    /\ ~Alive(p)
    /\ \E out \in Outputs :
        history' = history (+) SetToBag({OutcomeRecord(p, out, FALSE)})
    /\ hpc' = [hpc EXCEPT ![p] = "finally"]
    /\ UNCHANGED <<processes, proc, cpc, cop, cflow, ctarget, last,
                   htarget>>
    /\ UNCHANGED <<runVars, auxVars>>

\* wait_for_completion, executor.py:84-181: communicate() returns because
\* the process exited, or raises TimeoutExpired while it is still alive;
\* the outcome is written to the history table
HandlerComplete(p) ==
    /\ hpc[p] = "waiting"
    /\ \E out \in Outputs :
        history' = history (+) SetToBag({OutcomeRecord(p, out, Alive(p))})
    /\ hpc' = [hpc EXCEPT ![p] = "finally"]
    /\ UNCHANGED <<processes, proc, cpc, cop, cflow, ctarget, last,
                   htarget>>
    /\ UNCHANGED <<runVars, auxVars>>

\* wait_for_completion, executor.py:183-185: the is_running of the finally
HandlerFinallyCheck(p) ==
    /\ hpc[p] = "finally"
    /\ processes' = PruneOne(proc[p].flow)
    /\ hpc' = [hpc EXCEPT ![p] =
                 IF is_running(proc[p].flow) THEN "sp_begin" ELSE "done"]
    /\ UNCHANGED <<proc, cpc, cop, cflow, ctarget, last,
                   htarget, history>>
    /\ UNCHANGED <<runVars, auxVars>>

\* stop_process, process_manager.py:79-88, on the completion thread
HandlerStopBegin(p) ==
    /\ hpc[p] = "sp_begin"
    /\ IF ~Tracked(proc[p].flow)
       THEN /\ hpc' = [hpc EXCEPT ![p] = "done"]
            /\ UNCHANGED <<proc, htarget>>
       ELSE /\ htarget' = [htarget EXCEPT ![p] = processes[proc[p].flow]]
            /\ proc' = Terminate(processes[proc[p].flow])
            /\ hpc' = [hpc EXCEPT ![p] = "sp_end"]
    /\ UNCHANGED <<processes, cpc, cop, cflow, ctarget, last, history>>
    /\ UNCHANGED <<runVars, auxVars>>

\* stop_process, process_manager.py:89-106, on the completion thread
HandlerStopEnd(p) ==
    /\ hpc[p] = "sp_end"
    /\ proc' = WaitOrKill(htarget[p])
    /\ processes' = [processes EXCEPT ![proc[p].flow] = NoPid]
    /\ hpc' = [hpc EXCEPT ![p] = "done"]
    /\ htarget' = [htarget EXCEPT ![p] = NoPid]
    /\ UNCHANGED <<cpc, cop, cflow, ctarget, last, history>>
    /\ UNCHANGED <<runVars, auxVars>>

\* -------------------------------------------------------------- executor

StepTypes == {"navigate", "click", "extract", "wait_time", "loop", "if_else"}

\* the kinds whose handler runs child steps through _execute_child_step
\* (loop_array runs them exactly as loop does)
ContainerTypes == {"loop", "if_else"}

NoResult == [status |-> "none", steps_executed |-> 0, steps_failed |-> 0]

\* StepResult, playwright_executor.py:20-32: index, kind, success, and
\* whether the error text starts with a "[KIND]" classification tag
StepResult(i, type, ok, tag) ==
    [step_index |-> i, step_type |-> type, success |-> ok, tagged |-> tag]

\* the status rule with "partial" also when every step failed
Status_PartialInclusive(failed, total) ==
    IF 0 < failed /\ failed <= total THEN "partial"
    ELSE IF failed = 0 THEN "success" ELSE "failed"

\* the status rule without the "partial" override
Status_NoPartial(failed, total) ==
    IF failed = 0 THEN "success" ELSE "failed"

\* execute, playwright_executor.py:363-365
Status(failed, total) ==
    IF 0 < failed /\ failed < total THEN "partial"
    ELSE IF failed = 0 THEN "success" ELSE "failed"

ExecIdle ==
    /\ steps = <<>>
    /\ xpc = "off"
    /\ idx = 0
    /\ step_results = <<>>
    /\ steps_failed = 0
    /\ attempted = <<>>
    /\ closed = 0
    /\ result = NoResult
    /\ cleft = 0
    /\ child_runs = 0
    /\ child_failed = 0

\* execute, playwright_executor.py:100-103 and 276: the state on entry to
\* the step loop, for any parsed step list
ExecInit ==
    /\ steps \in UNION {[1..n -> StepTypes] : n \in 0..MaxSteps}
    /\ xpc = "loop"
    /\ idx = 0
    /\ step_results = <<>>
    /\ steps_failed = 0
    /\ attempted = <<>>
    /\ closed = 0
    /\ result = NoResult
    /\ cleft = 0
    /\ child_runs = 0
    /\ child_failed = 0

\* page ids: 0 is the page this execution creates (context.new_page()),
\* 1..MaxPages are pages that were open in the browser before the attach
PageIds == 0..MaxPages

NoPages == [i \in PageIds |-> "absent"]

\* what context.close() can do to the context the execution holds: close
\* the context with all the pages that belong to it, or raise
ContextCloseOutcomes == {"closed", "raised"}

\* the pages after context.close(): every open page of the context is closed
ClosePages(ps) == [i \in PageIds |-> IF ps[i] = "open" THEN "closed" ELSE ps[i]]

\* no run_automation process is looked at
SessIdle ==
    /\ use_cdp_mode = FALSE
    /\ browser = "absent"
    /\ launched = FALSE
    /\ cdp = FALSE
    /\ endpoint = "answers"
    /\ foreign = FALSE
    /\ polls = 0
    /\ pages = NoPages
    /\ connected = FALSE
    /\ close_error = FALSE
    /\ cause = "none"
    /\ setup_error = "none"
    /\ exit_code = "none"
    /\ persisted = "none"

\* execute, playwright_executor.py:209-271: the session of the regular mode
\* on entry to the step loop: a launched browser, a fresh context, one page
SessEphemeral ==
    /\ use_cdp_mode = FALSE
    /\ browser = "absent"
    /\ launched = FALSE
    /\ cdp = FALSE
    /\ endpoint = "answers"
    /\ foreign = FALSE
    /\ polls = 0
    /\ pages = [NoPages EXCEPT ![0] = "open"]
    /\ connected = TRUE
    /\ close_error = FALSE
    /\ cause = "none"
    /\ setup_error = "none"
    /\ exit_code = "none"
    /\ persisted = "none"

\* the loop goes on to the next step, or leaves for the finally block
Advance ==
    /\ idx' = idx + 1
    /\ xpc' = IF idx + 1 < Len(steps) THEN "loop" ELSE "cleanup"
    /\ attempted' = Append(attempted, idx)

\* execute, playwright_executor.py:277-306 with _execute_step 425-438: the
\* handler of step idx returns; a successful result is appended
StepSucceeds ==
    /\ xpc = "loop" /\ idx < Len(steps)
    /\ step_results' = Append(step_results, StepResult(idx, steps[idx + 1], TRUE, FALSE))
    /\ Advance
    /\ UNCHANGED <<steps, steps_failed, closed, result>>
    /\ UNCHANGED <<supVars, auxVars, nestVars, parseVars, sessVars>>

\* execute, playwright_executor.py:277-306 with _execute_step 440-469: the
\* handler raises, _execute_step turns the fault into a failed result
StepFaults ==
    /\ xpc = "loop" /\ idx < Len(steps)
    /\ step_results' = Append(step_results, StepResult(idx, steps[idx + 1], FALSE, TRUE))
    /\ steps_failed' = steps_failed + 1
    /\ Advance
    /\ UNCHANGED <<steps, closed, result>>
    /\ UNCHANGED <<supVars, auxVars, nestVars, parseVars, sessVars>>

\* a fault escaping _execute_step ends the loop without a result
StepEscapes_Aborts ==
    /\ xpc = "loop" /\ idx < Len(steps)
    /\ xpc' = "cleanup"
    /\ UNCHANGED <<steps, idx, step_results, steps_failed, attempted, closed, result>>
    /\ UNCHANGED <<supVars, auxVars, nestVars, parseVars, sessVars>>

\* execute, playwright_executor.py:308-323: a fault escapes _execute_step
\* (no handler for the kind, a fault while formatting the error) and the
\* except block of the loop appends the failed result itself
StepEscapes ==
    /\ xpc = "loop" /\ idx < Len(steps)
    /\ step_results' = Append(step_results, StepResult(idx, steps[idx + 1], FALSE, FALSE))
    /\ steps_failed' = steps_failed + 1
    /\ Advance
    /\ UNCHANGED <<steps, closed, result>>
    /\ UNCHANGED <<supVars, auxVars, nestVars, parseVars, sessVars>>

\* execute, playwright_executor.py:276-277: a flow without steps
NoSteps ==
    /\ xpc = "loop" /\ Len(steps) = 0
    /\ xpc' = "cleanup"
    /\ UNCHANGED <<steps, idx, step_results, steps_failed, attempted, closed, result>>
    /\ UNCHANGED <<supVars, auxVars, nestVars, parseVars, sessVars>>

\* the finally block with a failing context.close() left uncaught
Cleanup_CloseFailureEscapes ==
    /\ xpc = "cleanup"
    /\ closed' = closed + 1
    /\ \E o \in ContextCloseOutcomes :
        /\ pages' = IF o = "closed" THEN ClosePages(pages) ELSE pages
        /\ close_error' = (o = "raised")
        /\ xpc' = IF o = "raised" THEN "raise" ELSE "return"
    /\ connected' = FALSE
    /\ UNCHANGED <<steps, idx, step_results, steps_failed, attempted, result>>
    /\ UNCHANGED <<use_cdp_mode, browser, launched, cdp, endpoint, foreign,
                   polls, cause, setup_error, exit_code, persisted>>
    /\ UNCHANGED <<supVars, auxVars, nestVars, parseVars>>

\* execute, playwright_executor.py:325-358: the finally block: the context
\* is closed, then the browser object (the regular browser is shut down, an
\* attached one is disconnected from); a failing close is logged and
\* swallowed
Cleanup ==
    /\ xpc = "cleanup"
    /\ closed' = closed + 1
    /\ \E o \in ContextCloseOutcomes :
        /\ pages' = IF o = "closed" THEN ClosePages(pages) ELSE pages
        /\ close_error' = (o = "raised")
    /\ connected' = FALSE
    /\ xpc' = "return"
    /\ UNCHANGED <<steps, idx, step_results, steps_failed, attempted, result>>
    /\ UNCHANGED <<use_cdp_mode, browser, launched, cdp, endpoint, foreign,
                   polls, cause, setup_error, exit_code, persisted>>
    /\ UNCHANGED <<supVars, auxVars, nestVars, parseVars>>

\* execute, playwright_executor.py:360-378 and run_flow,
\* run_automation.py:56-64: the result that is printed
ReturnResult ==
    /\ xpc = "return"
    /\ result' = [status |-> Status(steps_failed, Len(steps)),
                  steps_executed |-> Len(steps),
                  steps_failed |-> steps_failed]
    /\ xpc' = "done"
    /\ UNCHANGED <<steps, idx, step_results, steps_failed, attempted, closed>>
    /\ UNCHANGED <<supVars, auxVars, nestVars, parseVars, sessVars>>

\* _handle_loop, playwright_executor.py:773-796 (_handle_loop_array 798-826,
\* _handle_if_else 828-958): the handler of a container step has children to
\* run: times * len(children) of them, or the children of the chosen branch
HandleChildren ==
    /\ xpc = "loop" /\ idx < Len(steps)
    /\ steps[idx + 1] \in ContainerTypes
    /\ \E k \in 1..MaxChildRuns : cleft' = k
    /\ xpc' = "children"
    /\ UNCHANGED <<steps, idx, step_results, steps_failed, attempted, closed, result>>
    /\ UNCHANGED <<child_runs, child_failed>>
    /\ UNCHANGED <<supVars, auxVars, parseVars, sessVars>>

\* _execute_child_step, playwright_executor.py:1007-1009: the handler of the
\* child returns; the dict goes to the handler's own loop_results
ChildSucceeds ==
    /\ xpc = "children" /\ cleft > 0
    /\ cleft' = cleft - 1
    /\ child_runs' = child_runs + 1
    /\ UNCHANGED child_failed
    /\ UNCHANGED execVars
    /\ UNCHANGED <<supVars, auxVars, parseVars, sessVars>>

\* _execute_child_step, playwright_executor.py:966-968, 1003-1005 and
\* 1010-1012: unknown kind, no handler, or the handler of the child raises;
\* a dict with success False is returned to the container handler, which
\* stores it in loop_results and goes on (783-788)
ChildFails ==
    /\ xpc = "children" /\ cleft > 0
    /\ cleft' = cleft - 1
    /\ child_runs' = child_runs + 1
    /\ child_failed' = child_failed + 1
    /\ UNCHANGED execVars
    /\ UNCHANGED <<supVars, auxVars, parseVars, sessVars>>

\* _handle_loop, playwright_executor.py:790-796, then _execute_step 425-438:
\* the container handler returns and the container step is a success
ChildrenDone ==
    /\ xpc = "children" /\ cleft = 0
    /\ step_results' = Append(step_results, StepResult(idx, steps[idx + 1], TRUE, FALSE))
    /\ Advance
    /\ UNCHANGED <<steps, steps_failed, closed, result>>
    /\ UNCHANGED nestVars
    /\ UNCHANGED <<supVars, auxVars, parseVars, sessVars>>

ExecNext ==
    \/ StepSucceeds
    \/ StepFaults
    \/ StepEscapes
    \/ HandleChildren
    \/ ChildSucceeds
    \/ ChildFails
    \/ ChildrenDone
    \/ NoSteps
    \/ Cleanup
    \/ ReturnResult

\* ---------------------------------------------------------------- parser
\* dsl_parser.py.  A JSON value of a step field is [t, n, nan]: t is the
\* Python type json.loads gives it ("NoneType" also stands for an absent
\* key, which params.get turns into None), n its numeric value (the length
\* of the stripped text for a str), nan whether it is the float NaN, which
\* json.loads accepts.

PyValue(t, n, nan) == [t |-> t, n |-> n, nan |-> nan]

PyNone == PyValue("NoneType", 0, FALSE)

BlankStr == PyValue("str", 0, FALSE)

TextStr == PyValue("str", 1, FALSE)

TextValues == {PyNone, BlankStr, TextStr}

DurationValues ==
    {PyNone, TextStr, PyValue("list", 0, FALSE),
     PyValue("bool", 1, FALSE), PyValue("bool", 0, FALSE),
     PyValue("int", -1, FALSE), PyValue("int", 0, FALSE), PyValue("int", 1, FALSE),
     PyValue("float", 1, FALSE), PyValue("float", 0, TRUE)}

\* isinstance(value, (int, float)); bool is a subclass of int
IsIntOrFloat(v) == v.t \in {"bool", "int", "float"}

\* value <= 0 on an int, bool or float; every comparison with NaN is False
LeqZero(v) == ~v.nan /\ v.n <= 0

\* isinstance(value, str) and not value.strip()
IsBlankStr(v) == v.t = "str" /\ v.n = 0

Fields == {"url", "selector", "variable", "duration"}

UnknownKind == "bogus"

ChildKinds == {"click", UnknownKind}

\* STEP_DEFINITIONS, dsl_parser.py:16-21: the kinds of the schema file
STEP_DEFINITIONS == StepTypes

\* REQUIRED_FIELDS, dsl_parser.py:29-32: the required fields the schema
\* gives each kind
REQUIRED_FIELDS(type) ==
    CASE type = "navigate" -> {"url"}
      [] type = "click" -> {"selector"}
      [] type = "extract" -> {"selector", "variable"}
      [] type = "wait_time" -> {"duration"}
      [] OTHER -> {}

NoParams == [f \in Fields |-> PyNone]

\* one element of the "steps" array: not an object, an object without
\* "type", or an object with a type, its fields and its child steps
StepDoc(form, type, params, children) ==
    [form |-> form, type |-> type, params |-> params, children |-> children]

ChildLists == UNION {[1..n -> ChildKinds] : n \in 0..MaxDocChildren}

StepDocs ==
    {StepDoc("not_dict", "none", NoParams, <<>>),
     StepDoc("no_type", "none", NoParams, <<>>),
     StepDoc("typed", UnknownKind, NoParams, <<>>)}
    \cup {StepDoc("typed", "navigate", [NoParams EXCEPT !["url"] = v], <<>>) :
            v \in TextValues}
    \cup {StepDoc("typed", "click", [NoParams EXCEPT !["selector"] = v], <<>>) :
            v \in TextValues}
    \cup {StepDoc("typed", "extract",
                  [NoParams EXCEPT !["selector"] = v, !["variable"] = w], <<>>) :
            v \in TextValues, w \in TextValues}
    \cup {StepDoc("typed", "wait_time", [NoParams EXCEPT !["duration"] = v], <<>>) :
            v \in DurationValues}
    \cup {StepDoc("typed", t, NoParams, c) :
            t \in ContainerTypes, c \in ChildLists}

Shapes == {"not_json", "not_object", "no_steps", "steps_not_list"}

Document(shape, ss) == [shape |-> shape, steps |-> ss]

DocumentsOver(S, n) ==
    {Document(sh, <<>>) : sh \in Shapes}
    \cup {Document("ok", ss) : ss \in UNION {[1..k -> S] : k \in 0..n}}

Documents == DocumentsOver(StepDocs, MaxDocSteps)

NoError == [reason |-> "none", position |-> 0, named |-> "none", known |-> {}]

ParseError(reason, position, named, known) ==
    [reason |-> reason, position |-> position, named |-> named, known |-> known]

\* ParsedStep, dsl_parser.py:35-41; the child steps stay raw inside params
ParsedStep(type, params, children) ==
    [type |-> type, params |-> params, children |-> children]

\* ParsedStep._validate_required_fields, dsl_parser.py:57-64
ValidateRequiredFields(type, params) ==
    IF \E f \in REQUIRED_FIELDS(type) : params[f] = PyNone \/ IsBlankStr(params[f])
    THEN "required_field" ELSE "none"

\* ParsedStep._validate_wait_time, dsl_parser.py:99-104
ValidateWaitTime(params) ==
    IF ~IsIntOrFloat(params["duration"]) THEN "duration_not_numeric"
    ELSE IF LeqZero(params["duration"]) THEN "duration_not_positive"
    ELSE "none"

\* ParsedStep._validate_extract, dsl_parser.py:66-72
ValidateExtract(params) ==
    IF params["selector"] = PyNone \/ IsBlankStr(params["selector"])
    THEN "extract_selector"
    ELSE IF params["variable"] = PyNone \/ IsBlankStr(params["variable"])
    THEN "extract_variable"
    ELSE "none"

\* ParsedStep.__post_init__, dsl_parser.py:43-55: the first check that raises
PostInit(type, params) ==
    IF ValidateRequiredFields(type, params) # "none"
    THEN ValidateRequiredFields(type, params)
    ELSE IF type = "wait_time" /\ ValidateWaitTime(params) # "none"
    THEN ValidateWaitTime(params)
    ELSE IF type = "extract" THEN ValidateExtract(params)
    ELSE "none"

\* DSLParser._parse_step, dsl_parser.py:149-168: the error it raises for one
\* element of the steps array ("none": a ParsedStep is returned); only the
\* element's own "type" is looked up, its children are copied into params
StepError(step) ==
    IF step.form = "not_dict" THEN ParseError("not_dict", 0, "none", {})
    ELSE IF step.form = "no_type" THEN ParseError("no_type", 0, "none", {})
    ELSE IF step.type \notin STEP_DEFINITIONS
    THEN ParseError("unknown_type", 0, step.type, STEP_DEFINITIONS)
    ELSE ParseError(PostInit(step.type, step.params), 0, "none", {})

\* the loop of parse reporting the 0-based index
ParseSteps_ZeroBased(ss, idx0, acc) ==
    LET bad == {i \in 1..Len(ss) : StepError(ss[i]).reason # "none"} IN
    IF bad = {}
    THEN [ok |-> TRUE, error |-> NoError,
          steps |-> [i \in 1..Len(ss) |->
                        ParsedStep(ss[i].type, ss[i].params, ss[i].children)]]
    ELSE LET k == CHOOSE i \in bad : \A j \in bad : i <= j IN
         [ok |-> FALSE, error |-> [StepError(ss[k]) EXCEPT !.position = k - 1],
          steps |-> <<>>]

RECURSIVE ParseSteps(_, _, _)
\* DSLParser.parse, dsl_parser.py:138-147: the steps are parsed in document
\* order from 0-based index idx0; the first one that raises ends parse with
\* "Error parsing step {idx + 1}"
ParseSteps(ss, idx0, acc) ==
    IF idx0 >= Len(ss) THEN [ok |-> TRUE, error |-> NoError, steps |-> acc]
    ELSE LET step == ss[idx0 + 1]
             err == StepError(step) IN
         IF err.reason # "none"
         THEN [ok |-> FALSE, error |-> [err EXCEPT !.position = idx0 + 1],
               steps |-> <<>>]
         ELSE ParseSteps(ss, idx0 + 1,
                         Append(acc, ParsedStep(step.type, step.params, step.children)))

\* DSLParser.parse, dsl_parser.py:110-147
Parse(d) ==
    IF d.shape = "not_json"
    THEN [ok |-> FALSE, error |-> ParseError("invalid_json", 0, "none", {}), steps |-> <<>>]
    ELSE IF d.shape = "not_object"
    THEN [ok |-> FALSE, error |-> ParseError("not_object", 0, "none", {}), steps |-> <<>>]
    ELSE IF d.shape = "no_steps"
    THEN [ok |-> FALSE, error |-> ParseError("no_steps", 0, "none", {}), steps |-> <<>>]
    ELSE IF d.shape = "steps_not_list"
    THEN [ok |-> FALSE, error |-> ParseError("steps_not_array", 0, "none", {}), steps |-> <<>>]
    ELSE ParseSteps(d.steps, 0, <<>>)

NotParsed == [ok |-> FALSE, error |-> ParseError("not_called", 0, "none", {}), steps |-> <<>>]

ParseIdle ==
    /\ doc = Document("no_steps", <<>>)
    /\ parsed = NotParsed

\* a call of parser.parse on any document
ParseInit ==
    /\ doc \in Documents
    /\ parsed = NotParsed

\* DSLParser.parse, dsl_parser.py:110-147, called on doc
ParseDocument ==
    /\ parsed = NotParsed
    /\ parsed' = Parse(doc)
    /\ UNCHANGED doc
    /\ UNCHANGED <<supVars, auxVars, execVars, nestVars, sessVars>>

\* ------------------------------------------------- the execution process
\* run_automation.py (main, run_flow), the session setup of
\* PlaywrightExecutor.execute and browser_launcher.py (BrowserManager)

\* is_cdp_ready, browser_launcher.py:25-49
is_cdp_ready == browser = "running" /\ cdp

\* is_port_in_use, browser_launcher.py:15-22
is_port_in_use == foreign \/ browser = "running"

\* BrowserManager.start_browser, browser_launcher.py:141-149 and 273-332: its
\* return value, by what happened inside
StartBrowserReturns(what) == what = "ready"

\* execute, playwright_executor.py:150-165: the RuntimeError raised when
\* start_browser returned False
StartBrowserError(success) ==
    IF success THEN "none" ELSE "cdp_cannot_start_browser"

\* BrowserManager.stop_browser, browser_launcher.py:334-353: the process
\* start_browser launched is terminated; nothing happens without one
StopBrowser == IF launched THEN "terminated" ELSE browser

\* the documents the process is run on: steps of a plain kind, of a
\* container kind and of an unknown kind
RunStepDocs ==
    {StepDoc("typed", UnknownKind, NoParams, <<>>),
     StepDoc("typed", "navigate", [NoParams EXCEPT !["url"] = TextStr], <<>>),
     StepDoc("typed", "loop", NoParams, <<>>)}

RunDocuments == DocumentsOver(RunStepDocs, MaxRunSteps)

\* main, run_automation.py:67-103: the process starts with its arguments;
\* in attached mode a browser may already be running on the port (it then
\* answers), or some other process may hold the port
RunInit ==
    /\ steps = <<>> /\ xpc = "parse" /\ idx = 0 /\ step_results = <<>>
    /\ steps_failed = 0 /\ attempted = <<>> /\ closed = 0 /\ result = NoResult
    /\ cleft = 0 /\ child_runs = 0 /\ child_failed = 0
    /\ doc \in RunDocuments
    /\ parsed = NotParsed
    /\ use_cdp_mode \in BOOLEAN
    /\ browser \in IF use_cdp_mode THEN {"absent", "running"} ELSE {"absent"}
    /\ cdp = (browser = "running")
    /\ endpoint \in IF use_cdp_mode /\ browser = "absent"
                    THEN {"answers", "never"} ELSE {"answers"}
    /\ foreign \in IF use_cdp_mode /\ browser = "absent" THEN BOOLEAN ELSE {FALSE}
    /\ launched = FALSE
    /\ polls = 0
    /\ pages = NoPages
    /\ connected = FALSE
    /\ close_error = FALSE
    /\ cause = "none"
    /\ setup_error = "none"
    /\ exit_code = "none"
    /\ persisted = "none"

\* run_flow that goes on to execute although parse raised
RunParse_IgnoresError ==
    /\ xpc = "parse"
    /\ parsed' = Parse(doc)
    /\ steps' = [i \in 1..Len(parsed'.steps) |-> parsed'.steps[i].type]
    /\ xpc' = "setup"
    /\ UNCHANGED <<idx, step_results, steps_failed, attempted, closed, result>>
    /\ UNCHANGED <<doc, sessVars>>
    /\ UNCHANGED <<supVars, auxVars, nestVars>>

\* run_flow, run_automation.py:24: parser.parse(dsl_json); its ValueError
\* leaves run_flow before execute is called
RunParse ==
    /\ xpc = "parse"
    /\ parsed' = Parse(doc)
    /\ steps' = [i \in 1..Len(parsed'.steps) |-> parsed'.steps[i].type]
    /\ xpc' = IF parsed'.ok THEN "setup" ELSE "raise"
    /\ setup_error' = IF parsed'.ok THEN "none" ELSE "parse_error"
    /\ UNCHANGED <<idx, step_results, steps_failed, attempted, closed, result>>
    /\ UNCHANGED <<doc, use_cdp_mode, browser, launched, cdp, endpoint, foreign,
                   polls, pages, connected, close_error, cause, exit_code,
                   persisted>>
    /\ UNCHANGED <<supVars, auxVars, nestVars>>

\* what every step of the session setup leaves alone
SetupFrame ==
    /\ UNCHANGED <<steps, idx, step_results, steps_failed, attempted, closed, result>>
    /\ UNCHANGED <<use_cdp_mode, endpoint, foreign, close_error, exit_code, persisted>>
    /\ UNCHANGED <<supVars, auxVars, nestVars, parseVars>>

\* execute, playwright_executor.py:209-271: regular mode; launch, new
\* context, new page
LaunchEphemeral ==
    /\ xpc = "setup" /\ ~use_cdp_mode
    /\ connected' = TRUE
    /\ pages' = [pages EXCEPT ![0] = "open"]
    /\ xpc' = "loop"
    /\ UNCHANGED <<browser, launched, cdp, polls, cause, setup_error>>
    /\ SetupFrame

\* execute, playwright_executor.py:224: browser_launcher.launch raises
LaunchEphemeralFails ==
    /\ xpc = "setup" /\ ~use_cdp_mode
    /\ cause' = "launch_failed"
    /\ setup_error' = "launch_error"
    /\ xpc' = "raise"
    /\ UNCHANGED <<browser, launched, cdp, polls, pages, connected>>
    /\ SetupFrame

\* execute, playwright_executor.py:132-143: a browser answers on the port
ProbeReady ==
    /\ xpc = "setup" /\ use_cdp_mode /\ is_cdp_ready
    /\ xpc' = "verify"
    /\ UNCHANGED <<browser, launched, cdp, polls, pages, connected, cause, setup_error>>
    /\ SetupFrame

\* start_browser, browser_launcher.py:136-139: the port is taken, the
\* browser is assumed to be running and True is returned
StartBrowserPortInUse ==
    /\ xpc = "setup" /\ use_cdp_mode /\ ~is_cdp_ready /\ is_port_in_use
    /\ xpc' = "verify"
    /\ UNCHANGED <<browser, launched, cdp, polls, pages, connected, cause, setup_error>>
    /\ SetupFrame

\* start_browser, browser_launcher.py:141-145 (no executable found) and
\* 330-332 (Popen raises): False is returned; execute raises at 159-165
StartBrowserFails ==
    /\ xpc = "setup" /\ use_cdp_mode /\ ~is_cdp_ready /\ ~is_port_in_use
    /\ \E what \in {"exe_not_found", "popen_failed"} :
        /\ cause' = what
        /\ setup_error' = StartBrowserError(StartBrowserReturns(what))
    /\ xpc' = "raise"
    /\ UNCHANGED <<browser, launched, cdp, polls, pages, connected>>
    /\ SetupFrame

\* start_browser, browser_launcher.py:259-281: the browser is started
StartBrowserPopen ==
    /\ xpc = "setup" /\ use_cdp_mode /\ ~is_cdp_ready /\ ~is_port_in_use
    /\ browser' = "running"
    /\ launched' = TRUE
    /\ polls' = 0
    /\ xpc' = "poll"
    /\ UNCHANGED <<cdp, pages, connected, cause, setup_error>>
    /\ SetupFrame

\* the started browser opens its debugging endpoint
EndpointComesUp ==
    /\ browser = "running" /\ launched /\ ~cdp /\ endpoint = "answers"
    /\ cdp' = TRUE
    /\ UNCHANGED <<xpc, browser, launched, polls, pages, connected, cause, setup_error>>
    /\ SetupFrame

\* start_browser, browser_launcher.py:282-303: the probe answers, True
PollReady ==
    /\ xpc = "poll" /\ is_cdp_ready
    /\ xpc' = "verify"
    /\ UNCHANGED <<browser, launched, cdp, polls, pages, connected, cause, setup_error>>
    /\ SetupFrame

\* start_browser, browser_launcher.py:282-308: not ready, sleep, next round
PollWait ==
    /\ xpc = "poll" /\ ~is_cdp_ready /\ polls < MaxPolls
    /\ polls' = polls + 1
    /\ UNCHANGED <<xpc, browser, launched, cdp, pages, connected, cause, setup_error>>
    /\ SetupFrame

\* the readiness loop without its max_wait
PollTimeout_KeepsWaiting ==
    /\ xpc = "poll" /\ ~is_cdp_ready /\ polls = MaxPolls
    /\ UNCHANGED vars

\* start_browser, browser_launcher.py:310-328: max_wait is over; the browser
\* is stopped and False is returned; execute raises at 159-165
PollTimeout ==
    /\ xpc = "poll" /\ ~is_cdp_ready /\ polls = MaxPolls
    /\ browser' = StopBrowser
    /\ launched' = FALSE
    /\ cause' = "never_ready"
    /\ setup_error' = StartBrowserError(StartBrowserReturns("never_ready"))
    /\ xpc' = "raise"
    /\ UNCHANGED <<cdp, polls, pages, connected>>
    /\ SetupFrame

\* execute, playwright_executor.py:171-177: the final is_cdp_ready holds
VerifyReady ==
    /\ xpc = "verify" /\ is_cdp_ready
    /\ xpc' = "connect"
    /\ UNCHANGED <<browser, launched, cdp, polls, pages, connected, cause, setup_error>>
    /\ SetupFrame

\* execute, playwright_executor.py:171-177 and 199-207: CDP does not answer,
\* also after 5 more seconds; the except block stops a browser that
\* start_browser launched and raises "cannot connect"
VerifyFails ==
    /\ xpc = "verify" /\ ~is_cdp_ready
    /\ browser' = StopBrowser
    /\ launched' = FALSE
    /\ cause' = "not_responding"
    /\ setup_error' = "cdp_cannot_connect"
    /\ xpc' = "raise"
    /\ UNCHANGED <<cdp, polls, pages, connected>>
    /\ SetupFrame

\* execute, playwright_executor.py:181-197: connect_over_cdp; the default
\* context with the n pages it has; the first one is reused, a page is
\* created if there is none
ConnectOverCdp ==
    /\ xpc = "connect"
    /\ \E n \in 0..MaxPages :
        pages' = [i \in PageIds |->
                    IF i = 0 THEN (IF n = 0 THEN "open" ELSE "absent")
                    ELSE IF i <= n THEN "open" ELSE "absent"]
    /\ connected' = TRUE
    /\ xpc' = "loop"
    /\ UNCHANGED <<browser, launched, cdp, polls, cause, setup_error>>
    /\ SetupFrame

\* execute, playwright_executor.py:181-207: connect_over_cdp (or new_page)
\* raises; the except block stops a browser that start_browser launched
ConnectFails ==
    /\ xpc = "connect"
    /\ browser' = StopBrowser
    /\ launched' = FALSE
    /\ cause' = "connect_failed"
    /\ setup_error' = "cdp_cannot_connect"
    /\ xpc' = "raise"
    /\ UNCHANGED <<cdp, polls, pages, connected>>
    /\ SetupFrame

\* BrowserManager.__del__, browser_launcher.py:355-358: when the interpreter
\* exits, the finalizer of the global manager may run and stop the browser
\* that start_browser launched
AfterManagerTeardown == IF launched THEN {browser, "terminated"} ELSE {browser}

\* what the end of the process leaves alone
ExitFrame ==
    /\ UNCHANGED <<steps, idx, step_results, steps_failed, attempted, closed, result>>
    /\ UNCHANGED <<use_cdp_mode, launched, cdp, endpoint, foreign, polls, pages,
                   connected, close_error, cause, setup_error, persisted>>
    /\ UNCHANGED <<supVars, auxVars, nestVars, parseVars>>

\* main, run_automation.py:101-113: the output is printed, exit status 0
ExitOk ==
    /\ xpc = "done" /\ exit_code = "none"
    /\ exit_code' = "zero"
    /\ browser' \in AfterManagerTeardown
    /\ UNCHANGED xpc
    /\ ExitFrame

\* main, run_automation.py:115-119: the exception is printed on stderr,
\* exit status 1
ExitError ==
    /\ xpc = "raise"
    /\ exit_code' = "nonzero"
    /\ browser' \in AfterManagerTeardown
    /\ xpc' = "failed"
    /\ ExitFrame

\* wait_for_completion, executor.py:92-95: what the supervisor reads from
\* the stdout of a process that printed its result
OutputOf(res) == IF res.status = "success" THEN "success" ELSE "failed"

\* wait_for_completion, executor.py:84-160: the supervisor persists the
\* outcome of the process that exited
Persist ==
    /\ exit_code # "none" /\ persisted = "none"
    /\ persisted' = IF ErrorSource(exit_code, OutputOf(result), FALSE) = "none"
                    THEN "success" ELSE "failed"
    /\ UNCHANGED <<execVars, nestVars, parseVars, supVars, auxVars>>
    /\ UNCHANGED <<use_cdp_mode, browser, launched, cdp, endpoint, foreign,
                   polls, pages, connected, close_error, cause, setup_error,
                   exit_code>>

RunNext ==
    \/ RunParse
    \/ LaunchEphemeral
    \/ LaunchEphemeralFails
    \/ ProbeReady
    \/ StartBrowserPortInUse
    \/ StartBrowserFails
    \/ StartBrowserPopen
    \/ EndpointComesUp
    \/ PollReady
    \/ PollWait
    \/ PollTimeout
    \/ VerifyReady
    \/ VerifyFails
    \/ ConnectOverCdp
    \/ ConnectFails
    \/ StepSucceeds
    \/ StepFaults
    \/ StepEscapes
    \/ HandleChildren
    \/ ChildSucceeds
    \/ ChildFails
    \/ ChildrenDone
    \/ NoSteps
    \/ Cleanup
    \/ ReturnResult
    \/ ExitOk
    \/ ExitError
    \/ Persist

\* ------------------------------------------------------ error taxonomy

\* the members of ErrorType (their values equal their names)
ErrorTypes ==
    {"ELEMENT_NOT_FOUND", "ELEMENT_NOT_VISIBLE",
    "ELEMENT_NOT_INTERACTABLE", "TIMEOUT", "WAIT_TIMEOUT",
    "NAVIGATION_ERROR", "PAGE_LOAD_ERROR", "BROWSER_CRASH",
    "BROWSER_CLOSED", "CDP_CONNECTION_ERROR", "CDP_DISCONNECTED",
    "NETWORK_ERROR", "SSL_ERROR", "DNS_ERROR", "PERMISSION_ERROR",
    "FILE_ACCESS_ERROR", "VALIDATION_ERROR", "DSL_PARSE_ERROR",
    "SELECTOR_INVALID", "MANUAL_STOP", "PROCESS_TIMEOUT",
    "PROCESS_KILLED", "ASSERTION_FAILED", "SCRIPT_ERROR",
    "JAVASCRIPT_ERROR", "UNKNOWN"}

\* Text is modelled as a sequence of pieces, the concatenation of which is
\* the string; a keyword is a sequence of pieces as well, so that "in" of
\* Python is "occurs as a contiguous run of pieces".  A keyword that cannot
\* be put together from the pieces below is one piece of its own.  Text that
\* is not ASCII is written as the code points of its characters (uXXXX).
MessageAtoms ==
    {"net::", "ERR_", "NAME_NOT_RESOLVED", "cert", "goto", "timeout",
    "process ", "manually stopped", "browser ", "disconnected", "boom"}

\* the errors handed to classify_error: a plain string ("none") or an
\* exception object of the named class
ExceptionTypes == {"none", "TimeoutError"}

\* type(error).__name__, "" for a string
TypeName(t) ==
    IF t = "TimeoutError" THEN <<"Timeout", "Error">>
    ELSE IF t = "AssertionError" THEN <<"Assertion", "Error">>
    ELSE <<>>

\* str.lower() on one piece
Lower(piece) ==
    CASE piece = "ERR_" -> "err_"
      [] piece = "NAME_NOT_RESOLVED" -> "name_not_resolved"
      [] piece = "Timeout" -> "timeout"
      [] piece = "Error" -> "error"
      [] piece = "Assertion" -> "assertion"
      [] piece = "Just a moment" -> "just a moment"
      [] piece = "Attention Required" -> "attention required"
      [] OTHER -> piece

LowerAll(text) == [i \in DOMAIN text |-> Lower(text[i])]

\* keyword in text
IsSubstring(keyword, text) ==
    \E i \in 0..(Len(text) - Len(keyword)) :
        \A j \in 1..Len(keyword) : text[i + j] = keyword[j]

\* f"{error_type_name} {error_str}", both lowered
full_error(e) == LowerAll(TypeName(e.type)) \o <<" ">> \o LowerAll(e.message)

ERROR_PATTERNS ==
<<
    [error_type |-> "MANUAL_STOP",
     keywords |-> {<<"manually stopped">>,
                  <<"user cancelled">>,
                  <<"manual stop">>,
                  <<"u624bu52a8u505cu6b62">>,
                  <<"u7528u6237u53d6u6d88">>}],
    [error_type |-> "PROCESS_TIMEOUT",
     keywords |-> {<<"process ", "timeout">>,
                  <<"execution timeout">>,
                  <<"u8fdbu7a0bu8d85u65f6">>,
                  <<"u6267u884cu8d85u65f6">>}],
    [error_type |-> "PROCESS_KILLED",
     keywords |-> {<<"killed">>,
                  <<"terminated">>,
                  <<"sigterm">>,
                  <<"sigkill">>}],
    [error_type |-> "ELEMENT_NOT_VISIBLE",
     keywords |-> {<<"element is not visible">>,
                  <<"not visible">>,
                  <<"visibility">>}],
    [error_type |-> "ELEMENT_NOT_INTERACTABLE",
     keywords |-> {<<"element is not interactable">>,
                  <<"not interactable">>,
                  <<"intercept">>,
                  <<"obscured">>}],
    [error_type |-> "ELEMENT_NOT_FOUND",
     keywords |-> {<<"no element found">>,
                  <<"element not found">>,
                  <<"waiting for selector">>,
                  <<"locator resolved to">>}],
    [error_type |-> "TIMEOUT",
     keywords |-> {<<"timeout">>,
                  <<"timed out">>,
                  <<"timeout", "error">>,
                  <<"exceeded">>}],
    [error_type |-> "WAIT_TIMEOUT",
     keywords |-> {<<"waiting for">>,
                  <<"wait_for">>}],
    [error_type |-> "CDP_CONNECTION_ERROR",
     keywords |-> {<<"cdp">>,
                  <<"devtools">>,
                  <<"debugger">>}],
    [error_type |-> "BROWSER_CLOSED",
     keywords |-> {<<"target closed">>,
                  <<"target crashed">>,
                  <<"browser closed">>,
                  <<"page closed">>,
                  <<"context closed">>}],
    [error_type |-> "BROWSER_CRASH",
     keywords |-> {<<"browser crash">>,
                  <<"browser ", "disconnected">>,
                  <<"crashed">>}],
    [error_type |-> "CDP_DISCONNECTED",
     keywords |-> {<<"disconnected">>,
                  <<"connection closed">>}],
    [error_type |-> "SSL_ERROR",
     keywords |-> {<<"ssl">>,
                  <<"certificate">>,
                  <<"err_", "cert">>}],
    [error_type |-> "DNS_ERROR",
     keywords |-> {<<"dns">>,
                  <<"name not resolved">>,
                  <<"getaddrinfo">>,
                  <<"err_", "name_not_resolved">>}],
    [error_type |-> "NETWORK_ERROR",
     keywords |-> {<<"net::", "err_">>,
                  <<"network error">>,
                  <<"failed to fetch">>,
                  <<"fetch failed">>,
                  <<"connection refused">>}],
    [error_type |-> "NAVIGATION_ERROR",
     keywords |-> {<<"navigation">>,
                  <<"goto">>,
                  <<"page.goto">>}],
    [error_type |-> "PAGE_LOAD_ERROR",
     keywords |-> {<<"page load">>,
                  <<"load event">>}],
    [error_type |-> "PERMISSION_ERROR",
     keywords |-> {<<"permission denied">>,
                  <<"access denied">>,
                  <<"forbidden">>,
                  <<"403">>}],
    [error_type |-> "FILE_ACCESS_ERROR",
     keywords |-> {<<"file not found">>,
                  <<"no such file">>,
                  <<"enoent">>}],
    [error_type |-> "SELECTOR_INVALID",
     keywords |-> {<<"invalid selector syntax">>,
                  <<"syntax error in selector">>}],
    [error_type |-> "DSL_PARSE_ERROR",
     keywords |-> {<<"invalid json">>,
                  <<"json parse">>,
                  <<"jsondecodeerror">>}],
    [error_type |-> "VALIDATION_ERROR",
     keywords |-> {<<"validation error">>,
                  <<"value", "error">>}],
    [error_type |-> "JAVASCRIPT_ERROR",
     keywords |-> {<<"javascript error">>,
                  <<"script error">>,
                  <<"evaluation failed">>,
                  <<"executioncontextdestroyed">>}],
    [error_type |-> "SCRIPT_ERROR",
     keywords |-> {<<"script">>,
                  <<"evaluate">>}],
    [error_type |-> "ASSERTION_FAILED",
     keywords |-> {<<"assertion">>,
                  <<"assert">>,
                  <<"expected">>}],
    [error_type |-> "ELEMENT_NOT_FOUND",
     keywords |-> {<<"selector">>,
                  <<"locator">>,
                  <<"element">>}]
>>

\* the inner loop of classify_error over one rule
Matches(rule, text) ==
    \E keyword \in rule.keywords : IsSubstring(LowerAll(keyword), text)

\* the outer loop of classify_error from rule i on
RECURSIVE FirstMatch(_, _)
FirstMatch(i, text) ==
    IF i > Len(ERROR_PATTERNS) THEN "UNKNOWN"
    ELSE IF Matches(ERROR_PATTERNS[i], text) THEN ERROR_PATTERNS[i].error_type
    ELSE FirstMatch(i + 1, text)

classify_error_LastMatch(e) ==
    LET M == {i \in 1..Len(ERROR_PATTERNS) :
                  Matches(ERROR_PATTERNS[i], full_error(e))}
    IN  IF M = {} THEN "UNKNOWN"
        ELSE ERROR_PATTERNS[CHOOSE i \in M : \A j \in M : j <= i].error_type

classify_error_GenericFirst(e) ==
    IF IsSubstring(<<"net::", "err_">>, full_error(e)) THEN "NETWORK_ERROR"
    ELSE FirstMatch(1, full_error(e))

classify_error(e) == FirstMatch(1, full_error(e))

INFO_MAP_NoDnsEntry ==
    "TIMEOUT" :> [label |-> "u8d85u65f6", description |-> "u64cdu4f5cu8d85u65f6u672au5b8cu6210", color |-> "red"] @@
    "UNKNOWN" :> [label |-> "u672au77e5u9519u8bef", description |-> "u65e0u6cd5u8bc6u522bu7684u9519u8befu7c7bu578b", color |-> "default"]

INFO_MAP ==
    "ELEMENT_NOT_FOUND" :> [label |-> "u5143u7d20u672au627eu5230",
        description |-> "u9875u9762u4e0au672au627eu5230u6307u5b9au7684u5143u7d20",
        color |-> "orange"] @@
    "ELEMENT_NOT_VISIBLE" :> [label |-> "u5143u7d20u4e0du53efu89c1",
        description |-> "u5143u7d20u5b58u5728u4f46u4e0du53efu89c1",
        color |-> "orange"] @@
    "ELEMENT_NOT_INTERACTABLE" :> [label |-> "u5143u7d20u4e0du53efu4ea4u4e92",
        description |-> "u5143u7d20u88abu906eu6321u6216u7981u7528",
        color |-> "orange"] @@
    "TIMEOUT" :> [label |-> "u8d85u65f6",
        description |-> "u64cdu4f5cu8d85u65f6u672au5b8cu6210",
        color |-> "red"] @@
    "WAIT_TIMEOUT" :> [label |-> "u7b49u5f85u8d85u65f6",
        description |-> "u7b49u5f85u5143u7d20u6216u6761u4ef6u8d85u65f6",
        color |-> "red"] @@
    "NAVIGATION_ERROR" :> [label |-> "u5bfcu822au9519u8bef",
        description |-> "u9875u9762u5bfcu822au5931u8d25",
        color |-> "red"] @@
    "PAGE_LOAD_ERROR" :> [label |-> "u9875u9762u52a0u8f7du5931u8d25",
        description |-> "u9875u9762u672au80fdu6b63u5e38u52a0u8f7d",
        color |-> "red"] @@
    "BROWSER_CRASH" :> [label |-> "u6d4fu89c8u5668u5d29u6e83",
        description |-> "u6d4fu89c8u5668u8fdbu7a0bu5d29u6e83",
        color |-> "red"] @@
    "BROWSER_CLOSED" :> [label |-> "u6d4fu89c8u5668u5df2u5173u95ed",
        description |-> "u6d4fu89c8u5668u6216u9875u9762u610fu5916u5173u95ed",
        color |-> "red"] @@
    "CDP_CONNECTION_ERROR" :> [label |-> "CDPu8fdeu63a5u9519u8bef",
        description |-> "u65e0u6cd5u8fdeu63a5u5230u6d4fu89c8u5668u8c03u8bd5u7aefu53e3",
        color |-> "red"] @@
    "CDP_DISCONNECTED" :> [label |-> "CDPu8fdeu63a5u65adu5f00",
        description |-> "u4e0eu6d4fu89c8u5668u7684u8fdeu63a5u65adu5f00",
        color |-> "red"] @@
    "NETWORK_ERROR" :> [label |-> "u7f51u7edcu9519u8bef",
        description |-> "u7f51u7edcu8bf7u6c42u5931u8d25",
        color |-> "red"] @@
    "SSL_ERROR" :> [label |-> "SSLu9519u8bef",
        description |-> "SSLu8bc1u4e66u9a8cu8bc1u5931u8d25",
        color |-> "red"] @@
    "DNS_ERROR" :> [label |-> "DNSu9519u8bef",
        description |-> "u57dfu540du89e3u6790u5931u8d25",
        color |-> "red"] @@
    "PERMISSION_ERROR" :> [label |-> "u6743u9650u9519u8bef",
        description |-> "u65e0u6743u9650u6267u884cu64cdu4f5c",
        color |-> "volcano"] @@
    "FILE_ACCESS_ERROR" :> [label |-> "u6587u4ef6u8bbfu95eeu9519u8bef",
        description |-> "u65e0u6cd5u8bbfu95eeu6587u4ef6",
        color |-> "volcano"] @@
    "VALIDATION_ERROR" :> [label |-> "u9a8cu8bc1u9519u8bef",
        description |-> "u53c2u6570u9a8cu8bc1u5931u8d25",
        color |-> "gold"] @@
    "DSL_PARSE_ERROR" :> [label |-> "DSLu89e3u6790u9519u8bef",
        description |-> "u6d41u7a0bu914du7f6eu683cu5f0fu9519u8bef",
        color |-> "gold"] @@
    "SELECTOR_INVALID" :> [label |-> "u9009u62e9u5668u65e0u6548",
        description |-> "CSS/XPathu9009u62e9u5668u683cu5f0fu9519u8bef",
        color |-> "gold"] @@
    "MANUAL_STOP" :> [label |-> "u624bu52a8u505cu6b62",
        description |-> "u7528u6237u624bu52a8u505cu6b62u4e86u6267u884c",
        color |-> "blue"] @@
    "PROCESS_TIMEOUT" :> [label |-> "u8fdbu7a0bu8d85u65f6",
        description |-> "u6267u884cu8fdbu7a0bu8d85u65f6u88abu7ec8u6b62",
        color |-> "red"] @@
    "PROCESS_KILLED" :> [label |-> "u8fdbu7a0bu7ec8u6b62",
        description |-> "u6267u884cu8fdbu7a0bu88abu5f3au5236u7ec8u6b62",
        color |-> "red"] @@
    "ASSERTION_FAILED" :> [label |-> "u65adu8a00u5931u8d25",
        description |-> "u9a8cu8bc1u6761u4ef6u672au6ee1u8db3",
        color |-> "orange"] @@
    "SCRIPT_ERROR" :> [label |-> "u811au672cu9519u8bef",
        description |-> "u811au672cu6267u884cu51fau9519",
        color |-> "red"] @@
    "JAVASCRIPT_ERROR" :> [label |-> "JavaScriptu9519u8bef",
        description |-> "u9875u9762JavaScriptu6267u884cu9519u8bef",
        color |-> "red"] @@
    "UNKNOWN" :> [label |-> "u672au77e5u9519u8bef",
        description |-> "u65e0u6cd5u8bc6u522bu7684u9519u8befu7c7bu578b",
        color |-> "default"]

get_error_display_info(t) ==
    IF t \in DOMAIN INFO_MAP THEN INFO_MAP[t] ELSE INFO_MAP["UNKNOWN"]

NoErrorInput == [type |-> "none", message |-> <<"-">>]
NoKind == "-"
NoInfo == [label |-> "", description |-> "", color |-> ""]

ErrorInputs ==
    {[type |-> t, message |-> m] :
        t \in ExceptionTypes,
        m \in UNION {[1..n -> MessageAtoms] : n \in 0..MaxTextLen}}

ClsIdle == error = NoErrorInput /\ error_type = NoKind /\ info = NoInfo

\* an error to classify, or an ErrorType read back from a stored result
ClassifyInit ==
    /\ info = NoInfo
    /\ \/ error \in ErrorInputs /\ error_type = NoKind
       \/ error = NoErrorInput /\ error_type \in ErrorTypes

Classify ==
    /\ error # NoErrorInput
    /\ error_type = NoKind
    /\ error_type' = classify_error(error)
    /\ UNCHANGED <<error, info>>
    /\ UNCHANGED <<supVars, runVars, scopeVars, cfVars, shareVars, moreVars>>

DisplayInfo ==
    /\ error_type # NoKind
    /\ info = NoInfo
    /\ info' = get_error_display_info(error_type)
    /\ UNCHANGED <<error, error_type>>
    /\ UNCHANGED <<supVars, runVars, scopeVars, cfVars, shareVars, moreVars>>


\* ---- assert_text

\* the selectors, the expected texts and the pieces of the element texts the
\* assert_text steps are run with
AssertSelectors == {<<"#title">>, <<".", "timeout", "-box">>}

ExpectedTexts == {<<"ok">>, <<"welcome">>}

ActualAtoms == {"hello", "ok", "timeout", "network error", "expected"}

ActualTexts == UNION {[1..n -> ActualAtoms] : n \in 1..MaxActualLen}

\* _handle_assert_text, playwright_executor.py:645-647: the message of the
\* AssertionError
AssertionMessage(sel, expected, actual) ==
    <<"u65adu8a00u5931u8d25uff1au5143u7d20 ">> \o sel
        \o <<" u4e0du5305u542bu6587u672c '">> \o expected
        \o <<"'u3002u5b9eu9645u6587u672c: '">> \o actual \o <<"'">>

\* _handle_assert_text, playwright_executor.py:637-650: the exception it
\* raises, or no error when the text is there
handle_assert_text(sel, expected, actual) ==
    IF ~IsSubstring(expected, actual)
    THEN [type |-> "AssertionError",
          message |-> AssertionMessage(sel, expected, actual)]
    ELSE [type |-> "none", message |-> <<>>]

\* _execute_step on an assert_text step, playwright_executor.py:425-469: the
\* handler runs, and the exception it raised is classified
AssertText ==
    /\ error = NoErrorInput /\ error_type = NoKind
    /\ \E sel \in AssertSelectors, expected \in ExpectedTexts,
          actual \in ActualTexts :
        LET e == handle_assert_text(sel, expected, actual) IN
        /\ error' = e
        /\ error_type' = IF e.type = "none" THEN NoKind ELSE classify_error(e)
    /\ UNCHANGED info
    /\ UNCHANGED <<supVars, runVars, scopeVars, cfVars, shareVars, moreVars>>

\* ------------------------------------------- variables and nested steps

\* Strings are sequences of tokens here; "{{name}}" is one token.  The
\* variables dict is a sequence of [name, value] in insertion order, which is
\* the order _resolve_variables walks it in.
ScopeNames == {"v", "w"}

\* f"{{{{{var_name}}}}}"
Placeholder(name) ==
    CASE name = "v" -> "{{v}}"
      [] name = "w" -> "{{w}}"
      [] name = "_loop_results" -> "{{_loop_results}}"
      [] name = "_condition_result" -> "{{_condition_result}}"
      [] name = "_condition_detail" -> "{{_condition_detail}}"
      [] name = "_if_else_branch" -> "{{_if_else_branch}}"
      [] name = "_if_else_results" -> "{{_if_else_results}}"

\* the url / value / condition_value parameters the steps are written with
ScopeTexts == {<<"1">>, <<"{{v}}">>, <<"{{w}}">>, <<"u/", "{{v}}">>}

\* what page.text_content("#title") may return
PageTexts == {<<"a">>, <<"{{w}}">>}

\* "#title" is on the page, "#missing" is not
Selectors == {"#title", "#missing"}

\* str() of a list or dict stored in the variables (_loop_results, ...)
Opaque == <<"[...]">>

Names(scope) == {scope[i].name : i \in DOMAIN scope}

\* variables.get(name, default)
Get(scope, name, default) ==
    IF name \in Names(scope)
    THEN scope[CHOOSE i \in DOMAIN scope : scope[i].name = name].value
    ELSE default

\* variables[name] = value: a key keeps the place of its first insertion
Put(scope, name, value) ==
    IF name \in Names(scope)
    THEN [i \in DOMAIN scope |->
             IF scope[i].name = name THEN [name |-> name, value |-> value]
             ELSE scope[i]]
    ELSE Append(scope, [name |-> name, value |-> value])

\* variables.update(data)
RECURSIVE DictUpdate(_, _)
DictUpdate(scope, data) ==
    IF data = <<>> THEN scope
    ELSE DictUpdate(Put(scope, Head(data).name, Head(data).value), Tail(data))

\* value.replace(token, by)
RECURSIVE Replace(_, _, _)
Replace(text, token, by) ==
    IF text = <<>> THEN <<>>
    ELSE (IF Head(text) = token THEN by ELSE <<Head(text)>>)
             \o Replace(Tail(text), token, by)

\* the loop of _resolve_variables from entry i of the dict on
RECURSIVE ResolveFrom(_, _, _)
ResolveFrom(value, scope, i) ==
    IF i > Len(scope) THEN value
    ELSE ResolveFrom(Replace(value, Placeholder(scope[i].name), scope[i].value),
                     scope, i + 1)

resolve_variables(value, scope) == ResolveFrom(value, scope, 1)

ScopeStepTypes ==
    {"navigate", "set_variable", "extract", "loop", "if_else", "click"}

\* a step of the DSL: text is its url / value / condition_value (for a click
\* step, its selector written as tokens), variable its variable /
\* condition_variable, selector its selector / condition_selector
ScopeStep(type, variable, text, selector) ==
    [type |-> type, children |-> <<>>, text |-> text, variable |-> variable,
     selector |-> selector, times |-> 0, else_children |-> <<>>,
     condition_type |-> "-"]

LoopStep(times, children) ==
    [ScopeStep("loop", "-", <<>>, "-") EXCEPT
        !.times = times, !.children = children]

IfElseStep(condition_type, variable, text, selector, children, else_children) ==
    [ScopeStep("if_else", variable, text, selector) EXCEPT
        !.condition_type = condition_type,
        !.children = children, !.else_children = else_children]

\* what a handler hands back: its return value (used is the resolved
\* parameter its message quotes, results the child results it collected),
\* or the exception it raised (success = FALSE), and the dict it worked on
Returned(used, data, scope, results, branch) ==
    [success |-> TRUE, scope |-> scope, used |-> used, results |-> results,
     branch |-> branch, extracted_data |-> data]

Raised(scope) ==
    [success |-> FALSE, scope |-> scope, used |-> <<>>, results |-> <<>>,
     branch |-> "-", extracted_data |-> <<>>]

handle_navigate(step, scope) ==
    Returned(resolve_variables(step.text, scope), <<>>, scope, <<>>, "-")

handle_set_variable(step, scope) ==
    LET value == resolve_variables(step.text, scope) IN
    Returned(value, <<[name |-> step.variable, value |-> value]>>,
             scope, <<>>, "-")

\* page.text_content(selector) raises when nothing matches the selector
handle_extract(step, scope) ==
    IF step.selector = "#title"
    THEN Returned(<<>>, <<[name |-> step.variable, value |-> page_text]>>,
                  scope, <<>>, "-")
    ELSE Raised(scope)

\* the selectors the click steps are written with
ClickSelectors == {<<"#title">>, <<"#", "{{v}}">>}

\* the elements of the page a click can hit
Clickable == {<<"#title">>, <<"#", "a">>}

\* selector = params["selector"]; await page.click(selector): the parameter
\* goes to the page as written, and page.click raises when nothing matches
handle_click(step, scope) ==
    IF step.text \in Clickable
    THEN Returned(step.text, <<>>, scope, <<>>, "-")
    ELSE Raised(scope)

IsDigit(token) == token \in {"0", "1"}

RECURSIVE Decimal(_, _)
Decimal(text, acc) ==
    IF text = <<>> THEN acc
    ELSE Decimal(Tail(text), 10 * acc + (IF Head(text) = "1" THEN 1 ELSE 0))

\* float(text) raises unless text is a number
IsNumber(text) == text # <<>> /\ \A i \in DOMAIN text : IsDigit(text[i])

\* the condition of _handle_if_else: "true", "false", "raised" when the
\* evaluation raises, "unknown" for a condition type that is not one of the
\* eight
EvaluateCondition(step, scope) ==
    CASE step.condition_type = "variable_truthy" ->
            IF /\ step.variable \in Names(scope)
               /\ Get(scope, step.variable, <<>>) \notin {<<>>, <<"0">>}
            THEN "true" ELSE "false"
      [] step.condition_type = "variable_equals" ->
            IF Get(scope, step.variable, <<>>) = step.text
            THEN "true" ELSE "false"
      [] step.condition_type = "variable_greater" ->
            LET var_value == Get(scope, step.variable, <<"0">>) IN
            IF ~IsNumber(var_value) \/ ~IsNumber(step.text) THEN "raised"
            ELSE IF Decimal(var_value, 0) > Decimal(step.text, 0)
                 THEN "true" ELSE "false"
      [] step.condition_type = "element_exists" ->
            IF step.selector = "#title" THEN "true" ELSE "false"
      [] OTHER -> "unknown"

IsTrue_RaisedIsTrue(outcome) == outcome \in {"true", "raised"}

\* is_true starts False and is set by a condition that was evaluated
IsTrue(outcome) == outcome = "true"

range_OneMore(times) == times + 1

\* len(range(times))
range(times) == IF times > 0 THEN times ELSE 0

RECURSIVE Handle(_, _)
RECURSIVE RunChildren(_, _, _, _)
RECURSIVE RunIterations(_, _, _, _)

\* _execute_child_step: the handler is called for a known type, and what it
\* raises becomes {"success": False}
ExecuteChild(step, scope) ==
    IF step.type \notin ScopeStepTypes THEN Raised(scope)
    ELSE Handle(step, scope)

ChildResult(step, r) ==
    [success |-> r.success, step |-> step, used |-> r.used,
     extracted_data |-> r.extracted_data]

\* "for child in children": run the child, append its result, update the
\* variables with what it extracted
RunChildren(children, i, scope, acc) ==
    IF i > Len(children) THEN [scope |-> scope, results |-> acc]
    ELSE LET r == ExecuteChild(children[i], scope)
             after == IF r.extracted_data # <<>>
                      THEN DictUpdate(r.scope, r.extracted_data)
                      ELSE r.scope
         IN  RunChildren(children, i + 1, after,
                         Append(acc, ChildResult(children[i], r)))

\* "for i in range(times)"
RunIterations(n, children, scope, acc) ==
    IF n = 0 THEN [scope |-> scope, results |-> acc]
    ELSE LET r == RunChildren(children, 1, scope, acc)
         IN  RunIterations(n - 1, children, r.scope, r.results)

handle_loop(step, scope) ==
    IF step.children = <<>> THEN Returned(<<>>, <<>>, scope, <<>>, "-")
    ELSE LET r == RunIterations(range(step.times), step.children, scope, <<>>)
         IN  Returned(<<>>, <<[name |-> "_loop_results", value |-> Opaque]>>,
                      r.scope, r.results, "-")

handle_if_else(step, scope) ==
    LET is_true == IsTrue(EvaluateCondition(step, scope))
        branch_name == IF is_true THEN "then" ELSE "else"
        target_children == IF is_true THEN step.children
                           ELSE step.else_children
        condition ==
            <<[name |-> "_condition_result",
               value |-> IF is_true THEN <<"True">> ELSE <<"False">>],
              [name |-> "_condition_detail", value |-> Opaque]>>
    IN  IF target_children = <<>>
        THEN Returned(<<>>, condition, scope, <<>>, branch_name)
        ELSE LET r == RunChildren(target_children, 1, scope, <<>>)
             IN  Returned(<<>>,
                          condition \o
                          <<[name |-> "_if_else_branch",
                             value |-> <<branch_name>>],
                            [name |-> "_if_else_results", value |-> Opaque]>>,
                          r.scope, r.results, branch_name)

\* the handlers table
Handle(step, scope) ==
    CASE step.type = "navigate" -> handle_navigate(step, scope)
      [] step.type = "set_variable" -> handle_set_variable(step, scope)
      [] step.type = "extract" -> handle_extract(step, scope)
      [] step.type = "loop" -> handle_loop(step, scope)
      [] step.type = "if_else" -> handle_if_else(step, scope)
      [] step.type = "click" -> handle_click(step, scope)

\* the child lists the loop steps are written with
ScopeChildLists ==
    {<<>>,
     <<ScopeStep("set_variable", "v", <<"u/", "{{v}}">>, "-")>>,
     <<ScopeStep("set_variable", "w", <<"{{v}}">>, "-"),
       ScopeStep("set_variable", "v", <<"a">>, "-")>>,
     <<ScopeStep("extract", "v", <<>>, "#missing"),
       ScopeStep("set_variable", "v", <<"u/", "{{v}}">>, "-")>>,
     <<ScopeStep("navigate", "-", <<"{{v}}">>, "-"),
       ScopeStep("set_variable", "v", <<"0">>, "-")>>}

\* the then / else lists the if_else steps are written with
BranchLists ==
    {<<<<>>,
       <<ScopeStep("set_variable", "w", <<"{{v}}">>, "-")>>>>,
     <<<<ScopeStep("set_variable", "v", <<"a">>, "-")>>,
       <<>>>>,
     <<<<ScopeStep("set_variable", "v", <<"a">>, "-")>>,
       <<ScopeStep("extract", "v", <<>>, "#missing"),
         ScopeStep("set_variable", "w", <<"{{v}}">>, "-")>>>>}

\* the conditions the if_else steps are written with
Conditions ==
    {[type |-> "variable_truthy", value |-> <<>>, selector |-> "-"],
     [type |-> "variable_equals", value |-> <<"a">>, selector |-> "-"],
     [type |-> "variable_greater", value |-> <<"0">>, selector |-> "-"],
     [type |-> "element_exists", value |-> <<>>, selector |-> "#title"],
     [type |-> "element_exists", value |-> <<>>, selector |-> "#missing"],
     [type |-> "bogus", value |-> <<>>, selector |-> "-"]}

NotExecuted ==
    [success |-> FALSE, step |-> ScopeStep("-", "-", <<>>, "-"),
     used |-> <<>>, results |-> <<>>, branch |-> "-", scope_before |-> <<>>]

ScopeIdle ==
    /\ variables = <<>>
    /\ page_text = <<>>
    /\ executed = NotExecuted
    /\ scope_steps = MaxScopeSteps

\* execute starts with variables = {}
ScopeInit ==
    /\ variables = <<>>
    /\ page_text \in PageTexts
    /\ executed = NotExecuted
    /\ scope_steps = 0

\* one turn of the step loop of execute: _execute_step calls the handler,
\* and the variables are updated with the extracted data of the result
ExecuteScopeStep(step) ==
    /\ scope_steps < MaxScopeSteps
    /\ LET r == Handle(step, variables) IN
       /\ executed' = [success |-> r.success, step |-> step,
                       used |-> r.used, results |-> r.results,
                       branch |-> r.branch, scope_before |-> variables]
       /\ variables' = IF r.success /\ r.extracted_data # <<>>
                       THEN DictUpdate(r.scope, r.extracted_data)
                       ELSE r.scope
    /\ scope_steps' = scope_steps + 1
    /\ UNCHANGED page_text
    /\ UNCHANGED <<supVars, runVars, clsVars, cfVars, shareVars, moreVars>>

ScopeNavigate ==
    \E url \in ScopeTexts :
        ExecuteScopeStep(ScopeStep("navigate", "-", url, "-"))

ScopeSetVariable ==
    \E name \in ScopeNames, value \in ScopeTexts :
        ExecuteScopeStep(ScopeStep("set_variable", name, value, "-"))

ScopeExtract ==
    \E name \in ScopeNames, selector \in Selectors :
        ExecuteScopeStep(ScopeStep("extract", name, <<>>, selector))

ScopeLoop ==
    \E times \in 0..MaxTimes, children \in ScopeChildLists :
        ExecuteScopeStep(LoopStep(times, children))

ScopeIfElse ==
    \E c \in Conditions, branches \in BranchLists :
        ExecuteScopeStep(IfElseStep(c.type, "v", c.value, c.selector,
                                    branches[1], branches[2]))

ScopeClick ==
    \E sel \in ClickSelectors :
        ExecuteScopeStep(ScopeStep("click", "-", sel, "-"))

\* --------------------------------------------------- challenge handler

CF_PAGE_SELECTORS ==
    <<"#cf-wrapper", "#challenge-running", "#challenge-form",
      ".cf-browser-verification", "#cf-spinner-please-wait",
      "#cf-please-wait">>

TURNSTILE_SELECTORS ==
    <<"iframe[src*='challenges.cloudflare.com']", "iframe[src*='turnstile']",
      "#cf-turnstile-response", "[data-sitekey]">>

hcaptcha_selectors ==
    <<"iframe[src*='hcaptcha']", "#cf-hcaptcha-container", ".h-captcha">>

CF_TITLE_KEYWORDS ==
    <<<<"just a moment">>, <<"checking your browser">>, <<"please wait">>,
      <<"attention required">>, <<"one more step">>>>

Range(seq) == {seq[i] : i \in DOMAIN seq}

MarkerSelectors ==
    Range(CF_PAGE_SELECTORS) \cup Range(TURNSTILE_SELECTORS)
        \cup Range(hcaptcha_selectors)

\* what page.title() gives, as pieces; NoTitle: page.title() raises
NoTitle == <<"-">>

PageTitles ==
    {<<"Just a moment", "...">>, <<"Attention Required", "! | Cloudflare">>,
     <<"Example Domain">>, NoTitle}

\* the elements of a page that match one of the selectors: selector -> is
\* the element visible
ElementSets ==
    {e \in [MarkerSelectors -> {"absent", "hidden", "visible"}] :
        Cardinality({sel \in MarkerSelectors : e[sel] # "absent"}) <= MaxMarkers}

Pages == [title : PageTitles, elements : ElementSets]

BlankPage ==
    [title |-> <<"Example Domain">>,
     elements |-> [sel \in MarkerSelectors |-> "absent"]]

\* page.query_selector(selector) is not None
Exists(p, selector) == p.elements[selector] # "absent"

\* element.is_visible()
Visible(p, selector) == p.elements[selector] = "visible"

identify_challenge_variant(p) ==
    IF \E sel \in Range(hcaptcha_selectors) : Exists(p, sel) THEN "hcaptcha"
    ELSE IF \E sel \in Range(TURNSTILE_SELECTORS) : Exists(p, sel)
         THEN "turnstile"
    ELSE "page"

TitleMatches(p) ==
    \E i \in DOMAIN CF_TITLE_KEYWORDS :
        IsSubstring(CF_TITLE_KEYWORDS[i], LowerAll(p.title))

detect_challenge_type(p) ==
    IF p.title = NoTitle THEN "none"
    ELSE IF TitleMatches(p) THEN identify_challenge_variant(p)
    ELSE IF \E sel \in Range(TURNSTILE_SELECTORS) :
                Exists(p, sel) /\ Visible(p, sel)
         THEN "turnstile"
    ELSE IF \E sel \in Range(CF_PAGE_SELECTORS) :
                Exists(p, sel) /\ Visible(p, sel)
         THEN "page"
    ELSE "none"

NotDetected == "-"

DetectInit ==
    /\ page \in Pages
    /\ challenge = NotDetected
    /\ cf_enabled = TRUE
    /\ cf_steps = <<>>
    /\ cf_idx = 0
    /\ cf_pc = "off"
    /\ cf_log = <<>>

DetectChallenge ==
    /\ cf_pc = "off"
    /\ challenge = NotDetected
    /\ challenge' = detect_challenge_type(page)
    /\ UNCHANGED <<cf_enabled, cf_steps, cf_idx, cf_pc, cf_log, page>>
    /\ UNCHANGED <<supVars, runVars, clsVars, scopeVars, shareVars, moreVars>>

\* the step loop of execute with the challenge handler
CfStepKinds == {"navigate", "click", "loop"}

\* the pages a navigation lands on
LandingPages ==
    {BlankPage,
     [BlankPage EXCEPT !.title = <<"Just a moment", "...">>],
     [BlankPage EXCEPT !.elements["iframe[src*='turnstile']"] = "visible"]}

CfIdle ==
    /\ cf_enabled = FALSE
    /\ cf_steps = <<>>
    /\ cf_idx = 0
    /\ cf_pc = "off"
    /\ cf_log = <<>>
    /\ page = BlankPage
    /\ challenge = NotDetected

CfInit ==
    /\ cf_enabled \in BOOLEAN
    /\ cf_steps \in UNION {[1..n -> CfStepKinds] : n \in 1..MaxCfSteps}
    /\ cf_idx = 0
    /\ cf_pc = "pre"
    /\ cf_log = <<>>
    /\ page = BlankPage
    /\ challenge = NotDetected

Navigated(ok, child) ==
    [ok |-> ok, child |-> child, event |-> "navigate", phase |-> "-"]

Checked(phase) ==
    [ok |-> TRUE, child |-> FALSE, event |-> "check", phase |-> phase]

\* check_and_handle(page): nothing is looked at when the handler is disabled
CheckAndHandle(log, phase) ==
    IF cf_enabled THEN Append(log, Checked(phase)) ELSE log

DetectedBy(p) == IF cf_enabled THEN detect_challenge_type(p) ELSE challenge

CfAdvance ==
    /\ cf_idx' = cf_idx + 1
    /\ cf_pc' = IF cf_idx + 1 >= Len(cf_steps) THEN "done" ELSE "pre"

\* should_check(after_navigate=False) answered True
PreStepCheck ==
    /\ cf_pc = "pre"
    /\ cf_enabled
    /\ cf_log' = CheckAndHandle(cf_log, "pre")
    /\ challenge' = DetectedBy(page)
    /\ cf_pc' = "step"
    /\ UNCHANGED <<cf_enabled, cf_steps, cf_idx, page>>
    /\ UNCHANGED <<supVars, runVars, clsVars, scopeVars, shareVars, moreVars>>

\* should_check(after_navigate=False) answered False
PreStepNoCheck ==
    /\ cf_pc = "pre"
    /\ cf_pc' = "step"
    /\ UNCHANGED <<cf_enabled, cf_steps, cf_idx, cf_log, page, challenge>>
    /\ UNCHANGED <<supVars, runVars, clsVars, scopeVars, shareVars, moreVars>>

NavigateSucceeds ==
    /\ cf_pc = "step"
    /\ cf_steps[cf_idx + 1] = "navigate"
    /\ \E landing \in LandingPages :
        /\ page' = landing
        /\ cf_log' = CheckAndHandle(Append(cf_log, Navigated(TRUE, FALSE)),
                                    "post")
        /\ challenge' = DetectedBy(landing)
    /\ CfAdvance
    /\ UNCHANGED <<cf_enabled, cf_steps>>
    /\ UNCHANGED <<supVars, runVars, clsVars, scopeVars, shareVars, moreVars>>

\* page.goto raised: the result is not a success
NavigateFails ==
    /\ cf_pc = "step"
    /\ cf_steps[cf_idx + 1] = "navigate"
    /\ cf_log' = Append(cf_log, Navigated(FALSE, FALSE))
    /\ CfAdvance
    /\ UNCHANGED <<cf_enabled, cf_steps, page, challenge>>
    /\ UNCHANGED <<supVars, runVars, clsVars, scopeVars, shareVars, moreVars>>

OtherStep ==
    /\ cf_pc = "step"
    /\ cf_steps[cf_idx + 1] = "click"
    /\ CfAdvance
    /\ UNCHANGED <<cf_enabled, cf_steps, cf_log, page, challenge>>
    /\ UNCHANGED <<supVars, runVars, clsVars, scopeVars, shareVars, moreVars>>

\* a loop step whose child is a navigate step, run by _execute_child_step
LoopNavigates ==
    /\ cf_pc = "step"
    /\ cf_steps[cf_idx + 1] = "loop"
    /\ \E landing \in LandingPages, ok \in BOOLEAN :
        /\ page' = IF ok THEN landing ELSE page
        /\ cf_log' = Append(cf_log, Navigated(ok, TRUE))
    /\ CfAdvance
    /\ UNCHANGED <<cf_enabled, cf_steps, challenge>>
    /\ UNCHANGED <<supVars, runVars, clsVars, scopeVars, shareVars, moreVars>>

\* ------------------------------------- executions attached to one browser

\* The executions of NumExecs flows whose use_cdp_mode is set and whose
\* cdp_port is the same: trigger starts one run_automation process for each,
\* and each process attaches to the browser in execute.
Execs == 1..NumExecs

\* SharedBrowserExecutor.__init__(max_concurrent_tasks=3)
max_concurrent_tasks == 3

NoPage == 0

\* the tab the browser had before any execution attached; the page
\* execution e opens has id e
UserTab == NumExecs + 1

ShareIdle ==
    /\ sh_pc = [e \in Execs |-> "done"]
    /\ sh_page = [e \in Execs |-> NoPage]
    /\ sh_closed = [e \in Execs |-> {}]
    /\ ctx_pages = <<>>

ShareInit ==
    /\ sh_pc = [e \in Execs |-> "idle"]
    /\ sh_page = [e \in Execs |-> NoPage]
    /\ sh_closed = [e \in Execs |-> {}]
    /\ ctx_pages \in {<<>>, <<UserTab>>}

\* trigger -> start_process -> run_flow -> execute: connect_over_cdp, take
\* browser.contexts[0], and its first page when it has one
ShareAttach(e) ==
    /\ sh_pc[e] = "idle"
    /\ IF ctx_pages # <<>>
       THEN /\ sh_page' = [sh_page EXCEPT ![e] = ctx_pages[1]]
            /\ sh_pc' = [sh_pc EXCEPT ![e] = "running"]
       ELSE /\ sh_pc' = [sh_pc EXCEPT ![e] = "newpage"]
            /\ UNCHANGED sh_page
    /\ UNCHANGED <<sh_closed, ctx_pages>>
    /\ UNCHANGED <<supVars, runVars, clsVars, scopeVars, cfVars, moreVars>>

\* page = await context.new_page()
ShareNewPage(e) ==
    /\ sh_pc[e] = "newpage"
    /\ ctx_pages' = Append(ctx_pages, e)
    /\ sh_page' = [sh_page EXCEPT ![e] = e]
    /\ sh_pc' = [sh_pc EXCEPT ![e] = "running"]
    /\ UNCHANGED sh_closed
    /\ UNCHANGED <<supVars, runVars, clsVars, scopeVars, cfVars, moreVars>>

\* the steps are over: the cleanup of execute closes the context, and the
\* browser object after it
ShareCleanup(e) ==
    /\ sh_pc[e] = "running"
    /\ \E o \in ContextCloseOutcomes :
        IF o = "closed"
        THEN /\ sh_closed' = [sh_closed EXCEPT ![e] = Range(ctx_pages)]
             /\ ctx_pages' = <<>>
        ELSE UNCHANGED <<sh_closed, ctx_pages>>
    /\ sh_pc' = [sh_pc EXCEPT ![e] = "done"]
    /\ UNCHANGED sh_page
    /\ UNCHANGED <<supVars, runVars, clsVars, scopeVars, cfVars, moreVars>>

\* ------------------------------------------------- challenge handling

\* what _detect_challenge_type can answer
ChallengeTypes == {"none", "page", "turnstile", "hcaptcha"}

\* the return value of check_and_handle, cloudflare_handler.py:98-118
CheckResult(detected, handled, type, elapsed) ==
    [type |-> type, detected |-> detected, handled |-> handled,
     duration_ms |-> elapsed]

NoCheckResult == CheckResult(FALSE, FALSE, "-", 0)

\* the hand-over of _handle_page_challenge with the whole timeout again
Remaining_Restart(timeout, start, now) == timeout

\* _handle_page_challenge, cloudflare_handler.py:271 and 274:
\* timeout - int((loop.time() - start_time) * 1000)
Remaining(timeout, start, now) == timeout - (now - start)

\* the loop condition of the three handlers:
\* (loop.time() - start_time) * 1000 < timeout
InTime == h_clock - h_start < h_timeout

HIdle ==
    /\ h_pc = "idle" /\ h_type = "-" /\ h_seen = "-"
    /\ h_clock = 0 /\ h_start = 0 /\ h_timeout = 0 /\ h_clicks = 0
    /\ h_result = NoCheckResult /\ h_step = 0

\* the handler returns: check_and_handle computes the elapsed time and
\* returns its dict, cloudflare_handler.py:111-118
Returns(handled, now) ==
    /\ h_pc' = "returned"
    /\ h_result' = CheckResult(TRUE, handled, h_type, now)

\* check_and_handle, cloudflare_handler.py:85-109: the first detection and
\* the choice of the handler
Check ==
    /\ h_pc = "idle" /\ h_step < MaxChecks
    /\ \E type \in ChallengeTypes :
        /\ h_seen' = type
        /\ h_type' = type
        /\ IF type = "none"
           THEN /\ h_pc' = "returned"
                /\ h_result' = CheckResult(FALSE, TRUE, "none", 0)
           ELSE /\ h_pc' = type
                /\ UNCHANGED h_result
    /\ h_clock' = 0 /\ h_start' = 0 /\ h_timeout' = max_wait_time
    /\ h_clicks' = 0
    /\ UNCHANGED h_step
    /\ UNCHANGED <<earlierVars, notH>>

\* _handle_page_challenge, cloudflare_handler.py:263-274: one iteration,
\* asyncio.sleep(check_interval) and a detection
PagePoll ==
    /\ h_pc = "page" /\ InTime
    /\ h_clock' = h_clock + 1
    /\ \E type \in ChallengeTypes :
        /\ h_seen' = type
        /\ CASE type = "none" ->
                  /\ Returns(TRUE, h_clock')
                  /\ UNCHANGED <<h_start, h_timeout>>
             [] type = "page" ->
                  UNCHANGED <<h_pc, h_result, h_start, h_timeout>>
             [] OTHER ->
                  /\ h_pc' = type
                  /\ h_start' = h_clock'
                  /\ h_timeout' = Remaining(h_timeout, h_start, h_clock')
                  /\ UNCHANGED h_result
    /\ UNCHANGED <<h_type, h_clicks, h_step>>
    /\ UNCHANGED <<earlierVars, notH>>

\* _handle_page_challenge, cloudflare_handler.py:276-277
PageTimeout ==
    /\ h_pc = "page" /\ ~InTime
    /\ Returns(FALSE, h_clock)
    /\ UNCHANGED <<h_type, h_seen, h_clock, h_start, h_timeout, h_clicks, h_step>>
    /\ UNCHANGED <<earlierVars, notH>>

\* _wait_for_manual_solve, cloudflare_handler.py:290-295: one iteration,
\* asyncio.sleep(2) and a detection
ManualPoll ==
    /\ h_pc = "hcaptcha" /\ InTime
    /\ h_clock' = h_clock + 2
    /\ \E type \in ChallengeTypes :
        /\ h_seen' = type
        /\ IF type = "none" THEN Returns(TRUE, h_clock')
           ELSE UNCHANGED <<h_pc, h_result>>
    /\ UNCHANGED <<h_type, h_start, h_timeout, h_clicks, h_step>>
    /\ UNCHANGED <<earlierVars, notH>>

\* _wait_for_manual_solve, cloudflare_handler.py:297
ManualTimeout ==
    /\ h_pc = "hcaptcha" /\ ~InTime
    /\ Returns(FALSE, h_clock)
    /\ UNCHANGED <<h_type, h_seen, h_clock, h_start, h_timeout, h_clicks, h_step>>
    /\ UNCHANGED <<earlierVars, notH>>

\* _handle_turnstile, cloudflare_handler.py:196-250: one iteration; the
\* checkbox is clicked when it is found and visible, a detection is made
\* when the iframe is gone or after a click, and every path that does not
\* return sleeps
TurnstilePoll ==
    /\ h_pc = "turnstile" /\ InTime
    /\ h_clock' = h_clock + 1
    /\ \E clicked \in BOOLEAN, type \in ChallengeTypes :
        /\ h_clicks' = h_clicks + (IF clicked THEN 1 ELSE 0)
        /\ h_seen' = type
        /\ IF type = "none" THEN Returns(TRUE, h_clock')
           ELSE UNCHANGED <<h_pc, h_result>>
    /\ UNCHANGED <<h_type, h_start, h_timeout, h_step>>
    /\ UNCHANGED <<earlierVars, notH>>

\* _handle_turnstile, cloudflare_handler.py:252-253: the final check
TurnstileFinal ==
    /\ h_pc = "turnstile" /\ ~InTime
    /\ \E type \in ChallengeTypes :
        /\ h_seen' = type
        /\ Returns(type = "none", h_clock)
    /\ UNCHANGED <<h_type, h_clock, h_start, h_timeout, h_clicks, h_step>>
    /\ UNCHANGED <<earlierVars, notH>>

\* execute, playwright_executor.py:281-302: the result of the check is
\* logged and the step loop goes on
Continue ==
    /\ h_pc = "returned"
    /\ h_pc' = "idle"
    /\ h_step' = h_step + 1
    /\ UNCHANGED <<h_type, h_seen, h_clock, h_start, h_timeout, h_clicks, h_result>>
    /\ UNCHANGED <<earlierVars, notH>>

\* ---------------------------------------------------- completion record

\* sorted(): the rank of the ErrorType values in the order of Python's
\* string comparison
KindRank ==
    ("ASSERTION_FAILED" :> 1) @@ ("BROWSER_CLOSED" :> 2) @@
    ("BROWSER_CRASH" :> 3) @@ ("CDP_CONNECTION_ERROR" :> 4) @@
    ("CDP_DISCONNECTED" :> 5) @@ ("DNS_ERROR" :> 6) @@
    ("DSL_PARSE_ERROR" :> 7) @@ ("ELEMENT_NOT_FOUND" :> 8) @@
    ("ELEMENT_NOT_INTERACTABLE" :> 9) @@ ("ELEMENT_NOT_VISIBLE" :> 10) @@
    ("FILE_ACCESS_ERROR" :> 11) @@ ("JAVASCRIPT_ERROR" :> 12) @@
    ("MANUAL_STOP" :> 13) @@ ("NAVIGATION_ERROR" :> 14) @@
    ("NETWORK_ERROR" :> 15) @@ ("PAGE_LOAD_ERROR" :> 16) @@
    ("PERMISSION_ERROR" :> 17) @@ ("PROCESS_KILLED" :> 18) @@
    ("PROCESS_TIMEOUT" :> 19) @@ ("SCRIPT_ERROR" :> 20) @@
    ("SELECTOR_INVALID" :> 21) @@ ("SSL_ERROR" :> 22) @@
    ("TIMEOUT" :> 23) @@ ("UNKNOWN" :> 24) @@
    ("VALIDATION_ERROR" :> 25) @@ ("WAIT_TIMEOUT" :> 26)

\* the kinds the step errors of the inputs are tagged with
TaggedKinds == {"TIMEOUT", "ELEMENT_NOT_FOUND", "ASSERTION_FAILED", "UNKNOWN"}

\* _format_error_detail: str(error) and what follows it, as pieces
ErrorDetails == {<<"boom">>, <<"a", "[", "href", "]", " | URL: u">>}

\* _execute_step, playwright_executor.py:461-469: the error text of a step
\* whose handler raised, f"[{error_type}] {error_detail}"
TaggedError(kind, detail) == <<"[", kind, "]", " ">> \o detail

\* run_flow, run_automation.py:37-52: a step result as run_flow prints it;
\* "kind" remembers what _classify_error returned ("none": no failure, or an
\* error that was never classified), "error" is the text, <<>> when absent
StepDict(i, ok, kind, text) ==
    [error |-> text, step_index |-> i, success |-> ok, kind |-> kind]

\* the step results a run can print at index i: a success, a failure tagged
\* by _execute_step, a failure recorded by the except block of execute
\* (playwright_executor.py:308-323, error = str(e))
StepDictsAt(i) ==
    {StepDict(i, TRUE, "none", <<>>), StepDict(i, FALSE, "none", <<"boom">>)}
        \cup {StepDict(i, FALSE, k, TaggedError(k, d)) :
                k \in TaggedKinds, d \in ErrorDetails}

RECURSIVE StepDictLists(_)
StepDictLists(n) ==
    IF n = 0 THEN {<<>>}
    ELSE {<<>>} \cup
         {Append(l, s) : l \in {x \in StepDictLists(n - 1) : Len(x) = n - 1},
                         s \in StepDictsAt(n - 1)}
         \cup StepDictLists(n - 1)

Failed(step_list) == SelectSeq(step_list, LAMBDA s : ~s.success)

\* what communicate() returns or raises: the return code, whether the wait
\* timed out, the kind of text on stdout, the status and step_results of the
\* JSON document run_flow printed, and stderr as pieces
Completion(rc, timed, out, step_list, err) ==
    [step_results |-> step_list,
     status |-> Status(Len(Failed(step_list)), Len(step_list)),
     returncode |-> rc, timed_out |-> timed, stdout |-> out, stderr |-> err]

Completions ==
    {Completion("zero", FALSE, "json", l, <<>>) : l \in StepDictLists(MaxOutSteps)}
        \cup {Completion("zero", FALSE, o, <<>>, <<>>) : o \in {"malformed", "badshape"}}
        \cup {Completion("nonzero", FALSE, "none", <<>>, e) :
                e \in {<<>>, <<"Traceback">>}}
        \cup {Completion("none", TRUE, "none", <<>>, <<>>)}

\* error_text.startswith("[")
StartsWithBracket(text) == Len(text) > 0 /\ text[1] = "["

\* error_text.split("]")[0]
RECURSIVE BeforeBracket(_)
BeforeBracket(text) ==
    IF text = <<>> \/ text[1] = "]" THEN <<>>
    ELSE <<text[1]>> \o BeforeBracket(Tail(text))

\* str.strip("[]")
RECURSIVE StripBrackets(_)
StripBrackets(text) ==
    IF text = <<>> THEN <<>>
    ELSE IF text[1] \in {"[", "]"} THEN StripBrackets(Tail(text))
    ELSE IF text[Len(text)] \in {"[", "]"}
         THEN StripBrackets(SubSeq(text, 1, Len(text) - 1))
    ELSE text

\* wait_for_completion, executor.py:110-115: the tag taken off the error
\* text of a failed step, brackets included (<<>>: the text has no tag)
error_type_of(text) ==
    IF StartsWithBracket(text) THEN BeforeBracket(text) \o <<"]">> ELSE <<>>

\* wait_for_completion, executor.py:91-115: the error_types set
error_types(step_list) ==
    {StripBrackets(error_type_of(Failed(step_list)[i].error)) :
        i \in {j \in DOMAIN Failed(step_list) :
                 StartsWithBracket(Failed(step_list)[j].error)}}

\* sorted() in descending order
sorted_Descending(S) ==
    LET RECURSIVE Pick(_)
        Pick(T) == IF T = {} THEN <<>>
                   ELSE LET m == CHOOSE x \in T :
                                   \A y \in T : KindRank[x[1]] >= KindRank[y[1]]
                        IN <<m>> \o Pick(T \ {m})
    IN Pick(S)

\* sorted(error_types), executor.py:157
sorted(S) ==
    LET RECURSIVE Pick(_)
        Pick(T) == IF T = {} THEN <<>>
                   ELSE LET m == CHOOSE x \in T :
                                   \A y \in T : KindRank[x[1]] <= KindRank[y[1]]
                        IN <<m>> \o Pick(T \ {m})
    IN Pick(S)

\* an error_message: None, a text, or the " | ".join of one part per failed
\* step (executor.py:103-125)
Message(text) == [text |-> text, none |-> FALSE, parts |-> <<>>]

NoMessage == [text |-> <<>>, none |-> TRUE, parts |-> <<>>]

\* executor.py:104-123: the part of the summary written for a failed step
ErrorPart(step) ==
    [error_type |-> error_type_of(step.error),
     step_num |-> step.step_index + 1]

StepsMessage(step_list) ==
    [text |-> <<>>, none |-> FALSE,
     parts |-> [i \in DOMAIN Failed(step_list) |-> ErrorPart(Failed(step_list)[i])]]

History(status, message, kinds, payload) ==
    [status |-> status, error_types |-> kinds, error_message |-> message,
     result_payload |-> payload]

\* the status rule of the record with "partial" taken for a success
RecordStatus_PartialIsSuccess(status) ==
    IF status \in {"success", "partial"} THEN "success" ELSE "failed"

\* executor.py:95: FlowStatus.SUCCESS if result.get("status") == "success"
RecordStatus(status) == IF status = "success" THEN "success" ELSE "failed"

\* wait_for_completion, executor.py:84-181: the record written for what
\* communicate() gave
HistoryOf(c) ==
    IF c.timed_out
    THEN History("failed", Message(<<"timed out after 300 seconds">>), <<>>, "none")
    ELSE IF c.returncode # "zero"
    THEN History("failed",
                 Message(IF c.stderr # <<>> THEN c.stderr
                         ELSE <<"Execution failed">>), <<>>, "none")
    ELSE IF c.stdout = "malformed"
    THEN History("failed", Message(<<"Invalid JSON output">>), <<>>, "none")
    ELSE IF c.stdout = "badshape"
    THEN History("failed", Message(<<"object has no attribute 'get'">>), <<>>, "none")
    ELSE IF RecordStatus(c.status) = "failed"
    THEN History("failed",
                 IF Failed(c.step_results) # <<>>
                 THEN StepsMessage(c.step_results)
                 ELSE Message(<<"Executed steps">>),
                 sorted(error_types(c.step_results)), "stdout")
    ELSE History("success", NoMessage, sorted({}), "stdout")

NoCompletion == Completion("none", FALSE, "none", <<>>, <<>>)

NoHistory == History("none", NoMessage, <<>>, "none")

CmIdle == cm_in = NoCompletion /\ cm_rec = NoHistory

CmInit == cm_in \in Completions /\ cm_rec = NoHistory

\* wait_for_completion writes the record of the execution
Complete ==
    /\ cm_rec = NoHistory
    /\ cm_rec' = HistoryOf(cm_in)
    /\ UNCHANGED cm_in
    /\ UNCHANGED <<earlierVars, notCm>>

\* ------------------------------------------------- the concurrency limiter

\* asyncio.Semaphore(max_concurrent_tasks)
NewSemaphore == [value |-> max_concurrent_tasks, waiters |-> <<>>]

\* acquire() without the count: every caller passes
Acquire_NoCount(sem) == sem

\* Semaphore.acquire when it does not have to wait: the value goes down
Acquire(sem) == [sem EXCEPT !.value = sem.value - 1]

\* Semaphore.locked(): no slot, or somebody is waiting for one already
Locked(sem) == sem.value = 0 \/ sem.waiters # <<>>

\* Semaphore.release and the wake-up of the first waiter, which takes the
\* slot when it resumes: the value is as before when somebody waited
Release(sem) ==
    IF sem.waiters # <<>>
    THEN [sem EXCEPT !.waiters = Tail(sem.waiters)]
    ELSE [sem EXCEPT !.value = sem.value + 1]

\* the calls between the acquisition of a slot and its release
Inside == {e \in Execs : lim_pc[e] \in {"connecting", "executing", "closing"}}

\* __aexit__ of "async with self._semaphore": the slot goes back, the first
\* waiter enters, and the call ends as its body did
LeaveSemaphore(e, end) ==
    /\ semaphore' = Release(semaphore)
    /\ lim_pc' = IF semaphore.waiters # <<>>
                 THEN [lim_pc EXCEPT ![e] = end,
                                     ![Head(semaphore.waiters)] = "connecting"]
                 ELSE [lim_pc EXCEPT ![e] = end]

LimIdle ==
    /\ lim_pc = [e \in Execs |-> "returned"]
    /\ semaphore = NewSemaphore
    /\ lim_out = [e \in Execs |-> "-"]
    /\ active_connections = 0

LimInit ==
    /\ lim_pc = [e \in Execs |-> "idle"]
    /\ semaphore = NewSemaphore
    /\ lim_out = [e \in Execs |-> "-"]
    /\ active_connections = 0

\* execute_with_concurrency_control is called: "async with self._semaphore"
\* takes a slot, or waits behind the callers that wait already
LimEnter(e) ==
    /\ lim_pc[e] = "idle"
    /\ IF Locked(semaphore)
       THEN /\ semaphore' = [semaphore EXCEPT !.waiters = Append(@, e)]
            /\ lim_pc' = [lim_pc EXCEPT ![e] = "waiting"]
       ELSE /\ semaphore' = Acquire(semaphore)
            /\ lim_pc' = [lim_pc EXCEPT ![e] = "connecting"]
    /\ UNCHANGED <<lim_out, active_connections>>
    /\ UNCHANGED <<earlierVars, notLim>>

\* connect_to_user_browser returns the browser and its context
LimConnect(e) ==
    /\ lim_pc[e] = "connecting"
    /\ lim_pc' = [lim_pc EXCEPT ![e] = "executing"]
    /\ active_connections' = active_connections + 1
    /\ UNCHANGED <<semaphore, lim_out>>
    /\ UNCHANGED <<earlierVars, notLim>>

\* connect_to_user_browser raises (the port is not ready, the connection
\* fails, the browser has no context): browser is still None, the finally
\* block has nothing to close, and the exception leaves the with block
LimConnectFails(e) ==
    /\ lim_pc[e] = "connecting"
    /\ LeaveSemaphore(e, "raised")
    /\ lim_out' = [lim_out EXCEPT ![e] = "exception"]
    /\ UNCHANGED active_connections
    /\ UNCHANGED <<earlierVars, notLim>>

\* execute_in_new_page returns the result of the executor it was given, or
\* raises what new_page or the executor raised
LimExecute(e) ==
    /\ lim_pc[e] = "executing"
    /\ \E out \in {"result", "exception"} :
        lim_out' = [lim_out EXCEPT ![e] = out]
    /\ lim_pc' = [lim_pc EXCEPT ![e] = "closing"]
    /\ UNCHANGED <<semaphore, active_connections>>
    /\ UNCHANGED <<earlierVars, notLim>>

\* the finally block: browser.close() and the count of the connections,
\* which is skipped when close raises; then the with block is left
LimClose(e) ==
    /\ lim_pc[e] = "closing"
    /\ \E disconnected \in BOOLEAN :
        active_connections' = IF disconnected THEN active_connections - 1
                              ELSE active_connections
    /\ LeaveSemaphore(e, IF lim_out[e] = "result" THEN "returned"
                         ELSE "raised")
    /\ UNCHANGED lim_out
    /\ UNCHANGED <<earlierVars, notLim>>

\* ------------------------------------------------------------------ tabs

\* the page execute got at session setup
FirstPage == NoPage + 1

\* the tab a browser execute attached to may have open besides that page
OtherTab == FirstPage + 1

\* the page context.new_page() opens in a new_tab step
FreshPage == OtherTab + 1 + tab_steps

\* the step loop of execute after a step that reached the page target:
\* the loop does not follow it
NextPage_Follows(current, target) ==
    IF target = NoPage THEN current ELSE target

\* the step loop of execute: page is bound before the loop and handed to
\* _execute_step for every step; no handler returns a page and nothing
\* rebinds it
NextPage(current, target) == current

\* a StepResult: target is the page the handler reached, NoPage when it
\* raised before reaching one
TabResult(type, success, target) ==
    [target |-> target, type |-> type, success |-> success]

NoTabResult == TabResult("-", FALSE, NoPage)

IsOpen(p) == \E i \in DOMAIN tab_pages : tab_pages[i] = p

TabIdle ==
    /\ tab_page = NoPage /\ tab_pages = <<>> /\ tab_front = NoPage
    /\ tab_last = NoTabResult /\ tab_steps = MaxTabSteps

TabInit ==
    /\ tab_page = FirstPage
    /\ tab_pages \in {<<FirstPage>>, <<FirstPage, OtherTab>>}
    /\ tab_front = tab_pages[Len(tab_pages)]
    /\ tab_last = NoTabResult
    /\ tab_steps = 0

\* one turn of the step loop
TabStepDone(type, success, target) ==
    /\ tab_last' = TabResult(type, success, target)
    /\ tab_page' = NextPage(tab_page, target)
    /\ tab_steps' = tab_steps + 1
    /\ UNCHANGED <<earlierVars, notTab>>

\* _handle_click (and every handler that calls a method of page):
\* page.click raises when the page is closed, and _execute_step records
\* the step as failed
TabClick ==
    /\ tab_steps < MaxTabSteps
    /\ IF IsOpen(tab_page)
       THEN TabStepDone("click", TRUE, tab_page)
       ELSE TabStepDone("click", FALSE, NoPage)
    /\ UNCHANGED <<tab_pages, tab_front>>

\* _handle_new_tab: page.context.new_page() opens a page in front, and
\* new_page.goto(url) loads it or raises
TabNewTab ==
    /\ tab_steps < MaxTabSteps
    /\ tab_pages' = Append(tab_pages, FreshPage)
    /\ tab_front' = FreshPage
    /\ \E loaded \in BOOLEAN : TabStepDone("new_tab", loaded, FreshPage)

\* _handle_switch_tab: ValueError for an index that is out of range,
\* pages[tab_index].bring_to_front() otherwise
TabSwitchTab ==
    /\ tab_steps < MaxTabSteps
    /\ \E tab_index \in 0..Len(tab_pages) :
        IF tab_index >= Len(tab_pages)
        THEN /\ TabStepDone("switch_tab", FALSE, NoPage)
             /\ UNCHANGED tab_front
        ELSE /\ TabStepDone("switch_tab", TRUE, tab_pages[tab_index + 1])
             /\ tab_front' = tab_pages[tab_index + 1]
    /\ UNCHANGED tab_pages

\* _handle_close_tab: page.close(), which does nothing on a closed page;
\* the browser shows the tab that was opened last
TabCloseTab ==
    /\ tab_steps < MaxTabSteps
    /\ LET rest == SelectSeq(tab_pages, LAMBDA p : p # tab_page) IN
       /\ tab_pages' = rest
       /\ tab_front' = IF tab_front # tab_page THEN tab_front
                       ELSE IF rest = <<>> THEN NoPage
                       ELSE rest[Len(rest)]
    /\ TabStepDone("close_tab", TRUE, tab_page)

\* ------------------------------------------------------- specifications

MoreIdle == CmIdle /\ HIdle /\ LimIdle /\ TabIdle

AuxIdle == ClsIdle /\ ScopeIdle /\ CfIdle /\ ShareIdle /\ MoreIdle

Init == SupInit /\ ExecIdle /\ ParseIdle /\ SessIdle /\ AuxIdle

Next ==
    \/ \E c \in Callers, f \in Flows : TriggerCheck(c, f)
    \/ \E c \in Callers : StartProcessCheck(c)
    \/ \E c \in Callers : StartProcessSpawn(c)
    \/ \E c \in Callers : StartProcessFails(c)
    \/ \E c \in Callers, f \in Flows : StopCheck(c, f)
    \/ \E c \in Callers : CallerStopBegin(c)
    \/ \E c \in Callers : CallerStopEnd(c)
    \/ \E f \in Flows : QueryIsRunning(f)
    \/ QueryRunningFlows
    \/ \E p \in Pids : ProcessExits(p)
    \/ \E p \in Pids : HandlerComplete(p)
    \/ \E p \in Pids : HandlerFinallyCheck(p)
    \/ \E p \in Pids : HandlerStopBegin(p)
    \/ \E p \in Pids : HandlerStopEnd(p)

Spec == Init /\ [][Next]_vars

\* the completion thread is scheduled, and communicate(timeout=300)
\* returns or raises at the latest when the timeout expires; nothing makes
\* an execution process exit or a caller come back
FairSpec == Spec /\ \A p \in Pids : WF_vars(HandlerComplete(p))

ExecStart == SupInit /\ ExecInit /\ ParseIdle /\ SessEphemeral /\ AuxIdle

ExecSpec == ExecStart /\ [][ExecNext]_vars

ParseStart == SupInit /\ ExecIdle /\ ParseInit /\ SessIdle /\ AuxIdle

ParseNext == ParseDocument

ParseSpec == ParseStart /\ [][ParseNext]_vars

RunStart == SupInit /\ RunInit /\ AuxIdle

RunSpec == RunStart /\ [][RunNext]_vars

\* the execution process and the completion thread of the supervisor keep
\* running: a step that stays possible is taken
FairRunSpec == RunSpec /\ WF_vars(RunNext)

RunIdle == ExecIdle /\ ParseIdle /\ SessIdle

ClassifyStart == SupInit /\ RunIdle /\ ClassifyInit /\ ScopeIdle /\ CfIdle /\ ShareIdle /\ MoreIdle

ClassifyNext == Classify \/ DisplayInfo

ClassifySpec == ClassifyStart /\ [][ClassifyNext]_vars

ScopeStart == SupInit /\ RunIdle /\ ClsIdle /\ ScopeInit /\ CfIdle /\ ShareIdle /\ MoreIdle

ScopeNext ==
    \/ ScopeNavigate
    \/ ScopeSetVariable
    \/ ScopeExtract
    \/ ScopeLoop
    \/ ScopeIfElse
    \/ ScopeClick

ScopeSpec == ScopeStart /\ [][ScopeNext]_vars

DetectStart == SupInit /\ RunIdle /\ ClsIdle /\ ScopeIdle /\ DetectInit /\ ShareIdle /\ MoreIdle

DetectNext == DetectChallenge

DetectSpec == DetectStart /\ [][DetectNext]_vars

CfStart == SupInit /\ RunIdle /\ ClsIdle /\ ScopeIdle /\ CfInit /\ ShareIdle /\ MoreIdle

CfNext ==
    \/ PreStepCheck
    \/ PreStepNoCheck
    \/ NavigateSucceeds
    \/ NavigateFails
    \/ OtherStep
    \/ LoopNavigates

CfSpec == CfStart /\ [][CfNext]_vars

ShareStart ==
    SupInit /\ RunIdle /\ ClsIdle /\ ScopeIdle /\ CfIdle /\ ShareInit /\ MoreIdle

ShareNext ==
    \/ \E e \in Execs : ShareAttach(e)
    \/ \E e \in Execs : ShareNewPage(e)
    \/ \E e \in Execs : ShareCleanup(e)

ShareSpec == ShareStart /\ [][ShareNext]_vars

EarlierIdle == ClsIdle /\ ScopeIdle /\ CfIdle /\ ShareIdle

CmStart ==
    SupInit /\ RunIdle /\ EarlierIdle /\ CmInit /\ HIdle /\ LimIdle /\ TabIdle

CmNext == Complete

CmSpec == CmStart /\ [][CmNext]_vars

HStart ==
    SupInit /\ RunIdle /\ EarlierIdle /\ CmIdle /\ HIdle /\ LimIdle /\ TabIdle

HNext ==
    \/ Check
    \/ PagePoll
    \/ PageTimeout
    \/ ManualPoll
    \/ ManualTimeout
    \/ TurnstilePoll
    \/ TurnstileFinal
    \/ Continue

HSpec == HStart /\ [][HNext]_vars

\* check_and_handle runs on the one coroutine of execute: every await in it
\* resumes
FairHSpec == HSpec /\ WF_vars(HNext)

AssertStart == SupInit /\ RunIdle /\ AuxIdle

AssertNext == AssertText \/ DisplayInfo

AssertSpec == AssertStart /\ [][AssertNext]_vars

LimStart ==
    SupInit /\ RunIdle /\ EarlierIdle /\ CmIdle /\ HIdle /\ LimInit /\ TabIdle

LimNext ==
    \/ \E e \in Execs : LimEnter(e)
    \/ \E e \in Execs : LimConnect(e)
    \/ \E e \in Execs : LimConnectFails(e)
    \/ \E e \in Execs : LimExecute(e)
    \/ \E e \in Execs : LimClose(e)

TabStart ==
    SupInit /\ RunIdle /\ EarlierIdle /\ CmIdle /\ HIdle /\ LimIdle /\ TabInit

TabNext == TabClick \/ TabNewTab \/ TabSwitchTab \/ TabCloseTab

TabSpec == TabStart /\ [][TabNext]_vars

LimSpec == LimStart /\ [][LimNext]_vars

\* the running calls finish: every await of a call that holds a slot
\* resumes
FairLimSpec ==
    LimSpec /\ \A e \in Execs :
        WF_vars(LimConnect(e) \/ LimConnectFails(e) \/ LimExecute(e)
                    \/ LimClose(e))

\* ---------------------------------------------------------------- claims

TrackedAlive(f) == processes[f] # NoPid /\ proc[processes[f]].state = "alive"

TrackedDead(f) == processes[f] # NoPid /\ proc[processes[f]].state # "alive"

LiveProcs(f) == {p \in Pids : proc[p].state = "alive" /\ proc[p].flow = f}

\* number of history records written by execution p
RecordsOf(p) ==
    BagCardinality([r \in {x \in DOMAIN history : x.exec = p} |-> history[r]])

\* C1: whatever the interleaving of trigger calls, a flow never has two live
\* execution processes, and every live process is the one the registry
\* records for its flow.
C1_AtMostOneLivePerFlow ==
    \A f \in Flows :
        /\ Cardinality(LiveProcs(f)) <= 1
        /\ \A p \in LiveProcs(f) : processes[f] = p

\* C2: trigger on a flow whose tracked process is alive returns "running",
\* launches no process, starts no completion thread and leaves the registry
\* as it was.
C2_TriggerWhileAlive ==
    [][\A c \in Callers, f \in Flows :
         (TriggerCheck(c, f) /\ TrackedAlive(f)) =>
            /\ last' = [op |-> "trigger", ret |-> "running"]
            /\ cpc'[c] = "done"
            /\ UNCHANGED <<proc, processes, hpc, history>>]_vars

C2_Witness ==
    /\ last.op = "trigger" /\ last.ret = "running"
    /\ \E f \in Flows : TrackedAlive(f)
    /\ Cardinality({p \in Pids : proc[p].state # "unborn"}) = 1

\* C3: an execution never has more than one history record, and from some
\* point on every started execution has exactly one, however its process
\* ended (exit 0 with any output, non-zero exit, timeout of the wait, stop).
C3_ExactlyOneRecord ==
    /\ [](\A p \in Pids : RecordsOf(p) <= 1)
    /\ <>[](\A p \in Pids : hpc[p] # "none" => RecordsOf(p) = 1)

\* an execution that was stopped through stop(flow) has its one record
C3_Witness ==
    \E p \in Pids :
        /\ hpc[p] = "done" /\ RecordsOf(p) = 1
        /\ last = [op |-> "stop", ret |-> "stopped"]

\* C4: a trigger that failed to launch its process has left a failure
\* record for the flow that belongs to no started execution.
C4_LaunchFailureRecorded ==
    (last.op = "trigger" /\ last.ret = "failed") =>
        \E r \in DOMAIN history : r.exec = NoPid /\ r.status = "failed"

\* C5: a stop that found the flow's process alive signals the process, and
\* returns "stopped" with that process exited and the flow untracked, also
\* when another thread prunes the entry meanwhile.
C5_StopAlwaysStops ==
    [][\A c \in Callers :
         /\ (CallerStopBegin(c) /\ cop[c] = "stop") =>
               /\ cpc'[c] = "sp_end"
               /\ proc[ctarget'[c]].state = "alive" => proc'[ctarget'[c]].sigterm
         /\ (cop[c] = "stop" /\ cpc[c] \in {"sp_begin", "sp_end"} /\ cpc'[c] = "done") =>
               /\ last'.ret = "stopped"
               /\ processes'[cflow[c]] = NoPid
               /\ \A p \in Pids : proc'[p].flow = cflow[c] => proc'[p].state # "alive"]_vars

\* C6: stop on a flow without a registry entry returns "idle", signals
\* nothing and changes neither the registry nor any process.
C6_StopIdle ==
    [][\A c \in Callers, f \in Flows :
         (StopCheck(c, f) /\ processes[f] = NoPid) =>
            /\ last' = [op |-> "stop", ret |-> "idle"]
            /\ cpc'[c] = "done"
            /\ UNCHANGED <<proc, processes, hpc, htarget, history>>]_vars

C6_Witness ==
    /\ last.op = "stop" /\ last.ret = "idle"
    /\ \E g \in Flows : TrackedAlive(g)
    /\ Cardinality({p \in Pids : proc[p].state # "unborn"}) = 1

\* C7: is_running answers true exactly for a tracked live process,
\* get_running_flows answers exactly the flows with a tracked live process,
\* a query removes the exited entries it looks at and never a live one.
C7_LazyLiveness ==
    /\ [](\A f \in Flows : is_running(f) <=> TrackedAlive(f))
    /\ [](get_running_flows = {g \in Flows : TrackedAlive(g)})
    /\ [][/\ \A f \in Flows :
               QueryIsRunning(f) =>
                  /\ TrackedDead(f) => processes'[f] = NoPid
                  /\ \A g \in Flows : TrackedAlive(g) => processes'[g] = processes[g]
          /\ QueryRunningFlows =>
                  /\ \A g \in Flows : TrackedDead(g) => processes'[g] = NoPid
                  /\ \A g \in Flows : TrackedAlive(g) => processes'[g] = processes[g]]_vars

\* one trigger call was made, its process has exited and its completion
\* thread still waits: only a status query can have removed the entry, and
\* the other flow's live entry is still there
C7_Witness ==
    /\ \A c \in Callers : cpc[c] = "done"
    /\ \E p, q \in Pids :
        /\ proc[p].state = "exited" /\ hpc[p] = "waiting"
        /\ processes[proc[p].flow] = NoPid
        /\ proc[q].state = "alive" /\ processes[proc[q].flow] = q
    /\ get_running_flows # {} /\ last.ret = "started"

FailedCount == Cardinality({i \in 1..Len(step_results) : ~step_results[i].success})

\* C8: the status of a finished execution is "success" iff no step failed,
\* "partial" iff some but not all steps failed, "failed" iff all of at least
\* one step failed, and it is one of the three.
C8_StatusRule ==
    xpc = "done" =>
        /\ result.status \in {"success", "partial", "failed"}
        /\ (result.status = "success") <=> (FailedCount = 0)
        /\ (result.status = "partial") <=> (0 < FailedCount /\ FailedCount < Len(steps))
        /\ (result.status = "failed") <=> (FailedCount = Len(steps) /\ Len(steps) > 0)

C8_Witness ==
    /\ xpc = "done" /\ Len(steps) = 3 /\ FailedCount = 2
    /\ result.status = "partial"

ScenarioA ==
    /\ xpc = "done"
    /\ steps = <<"navigate", "click">>
    /\ step_results = <<StepResult(0, "navigate", TRUE, FALSE),
                        StepResult(1, "click", FALSE, TRUE)>>

\* C9 as stated: navigate succeeds, click on a missing element fails, and
\* the result is status "failed" with 2 steps executed and 1 failed.
C9_ScenarioA_Failed ==
    ScenarioA =>
        /\ result.status = "failed"
        /\ result.steps_executed = 2
        /\ result.steps_failed = 1

\* C9 amended: in scenario A the result is status "partial" with 2 steps
\* executed and 1 failed.
C9_ScenarioA_Partial ==
    ScenarioA =>
        /\ result.status = "partial"
        /\ result.steps_executed = 2
        /\ result.steps_failed = 1

C9_Witness == ScenarioA /\ result.steps_failed = 1

\* C10: faults never abort the run: the steps are attempted in list order,
\* each appends exactly one result carrying its index, results are only
\* appended, and at the end steps_executed = n and steps_failed is the
\* number of failed results.
C10_NoAbort ==
    /\ [](/\ Len(step_results) = idx /\ Len(attempted) = idx
          /\ \A i \in 1..Len(step_results) :
               /\ step_results[i].step_index = i - 1
               /\ step_results[i].step_type = steps[i]
               /\ attempted[i] = i - 1
          /\ xpc \in {"cleanup", "return", "done"} => Len(step_results) = Len(steps)
          /\ xpc = "done" =>
               /\ result.steps_executed = Len(steps)
               /\ result.steps_failed = FailedCount)
    /\ [][/\ Len(step_results') >= Len(step_results)
          /\ SubSeq(step_results', 1, Len(step_results)) = step_results]_vars

C10_Witness ==
    /\ xpc = "done" /\ Len(steps) = 3
    /\ ~step_results[1].success /\ step_results[1].tagged
    /\ ~step_results[2].success /\ ~step_results[2].tagged
    /\ step_results[3].success

\* C11: every executed step, child steps of loop / loop_array / if_else
\* included, has one StepResult in the execution's step results, and an
\* execution in which an executed child step failed does not have status
\* "success".  The code gives child steps no StepResult and does not count
\* their failures, so this is violated.
C11_ChildStepsCounted ==
    xpc = "done" =>
        /\ Len(step_results) = Len(steps) + child_runs
        /\ (child_failed > 0 => result.status # "success")

\* the kinds that occur in a document: of its steps and of their children
KindsIn(d) ==
    {d.steps[i].type : i \in {j \in 1..Len(d.steps) : d.steps[j].form = "typed"}}
    \cup UNION {{d.steps[i].children[j] : j \in 1..Len(d.steps[i].children)} :
                    i \in 1..Len(d.steps)}

\* the kinds handed to the executor: of the parsed steps and of the children
\* they carry
KindsParsed ==
    {parsed.steps[i].type : i \in 1..Len(parsed.steps)}
    \cup UNION {{parsed.steps[i].children[j] : j \in 1..Len(parsed.steps[i].children)} :
                    i \in 1..Len(parsed.steps)}

\* C18: parse fails for every document that has a step of unrecognized kind
\* anywhere in the step tree, top level or child of a container step; an
\* unknown-kind error names the kind and lists the known kinds; no step of
\* an unrecognized kind reaches the executor.  The code looks only at the
\* kind of top-level steps, so a document with an unknown child kind parses.
C18_UnknownKindRejected ==
    parsed # NotParsed =>
        /\ (KindsIn(doc) \ STEP_DEFINITIONS # {} => ~parsed.ok)
        /\ (parsed.error.reason = "unknown_type" =>
                /\ parsed.error.named = doc.steps[parsed.error.position].type
                /\ parsed.error.named \notin STEP_DEFINITIONS
                /\ parsed.error.known = STEP_DEFINITIONS)
        /\ (parsed.ok => KindsParsed \subseteq STEP_DEFINITIONS)

\* the step at position i of the document parses when it stands alone
ParsesAlone(i) == Parse(Document("ok", <<doc.steps[i]>>)).ok

\* C19: parse fails, returning no steps, for every input that is not valid
\* JSON, not a JSON object, has no "steps" or whose "steps" is not a list;
\* when a step fails validation the error names the 1-based position of the
\* first offending step in document order.
C19_ParseErrors ==
    parsed # NotParsed =>
        /\ (doc.shape = "not_json" => ~parsed.ok /\ parsed.error.reason = "invalid_json")
        /\ (doc.shape = "not_object" => ~parsed.ok /\ parsed.error.reason = "not_object")
        /\ (doc.shape = "no_steps" => ~parsed.ok /\ parsed.error.reason = "no_steps")
        /\ (doc.shape = "steps_not_list" => ~parsed.ok /\ parsed.error.reason = "steps_not_array")
        /\ (~parsed.ok => parsed.steps = <<>>)
        /\ (doc.shape = "ok" /\ (\E i \in 1..Len(doc.steps) : ~ParsesAlone(i)) =>
                /\ ~parsed.ok
                /\ parsed.error.position \in 1..Len(doc.steps)
                /\ ~ParsesAlone(parsed.error.position)
                /\ \A j \in 1..(parsed.error.position - 1) : ParsesAlone(j))
        /\ (parsed.ok => doc.shape = "ok" /\ Len(parsed.steps) = Len(doc.steps))

C19_Witness ==
    /\ ~parsed.ok
    /\ Len(doc.steps) = 2
    /\ parsed.error.position = 2
    /\ parsed.error.reason = "required_field"

\* a JSON number that is strictly greater than zero
PositiveNumber(v) == v.t \in {"int", "float"} /\ ~v.nan /\ v.n > 0

\* C20: a wait_time step is accepted only if its duration is a number
\* strictly greater than zero (missing, non-numeric, zero and negative
\* durations fail), and every required field of a step is present and
\* non-blank.  The code accepts the JSON value true (bool is an int in
\* Python) and NaN (NaN <= 0 is False), so this is violated.
C20_WaitTimeAndRequired ==
    parsed.ok =>
        \A i \in 1..Len(parsed.steps) :
            /\ (parsed.steps[i].type = "wait_time" =>
                    PositiveNumber(parsed.steps[i].params["duration"]))
            /\ \A f \in REQUIRED_FIELDS(parsed.steps[i].type) :
                    /\ parsed.steps[i].params[f] # PyNone
                    /\ ~IsBlankStr(parsed.steps[i].params[f])

\* C12: in every execution that reaches the step phase the cleanup runs
\* exactly once, after the last step and before the result is returned, and
\* a failing close is swallowed: it changes neither the step results nor the
\* status that is returned.
C12_CleanupOnce ==
    /\ [](xpc \in {"loop", "children"} => closed = 0)
    /\ [](xpc \in {"return", "done"} =>
            /\ closed = 1
            /\ idx = Len(steps)
            /\ Len(step_results) = Len(steps))
    /\ [](xpc = "done" => result.status = Status(FailedCount, Len(steps)))
    /\ [][xpc = "cleanup" =>
            /\ xpc' = "return"
            /\ closed' = closed + 1
            /\ UNCHANGED <<step_results, steps_failed, result>>]_vars
    /\ [][closed' # closed => xpc = "cleanup" /\ idx = Len(steps)]_vars

C12_Witness ==
    /\ xpc = "done"
    /\ close_error
    /\ closed = 1
    /\ use_cdp_mode
    /\ result.status = "failed"

\* C13: in attached mode only a page the execution created is closed at the
\* end: every page that was open in the browser before the attach, the
\* reused first one included, is still open after the detach.  The cleanup
\* closes the whole default context, so this is violated.
C13_ExistingPagesStayOpen ==
    use_cdp_mode => \A i \in 1..MaxPages : pages[i] # "closed"

\* C14: in attached mode the persistent browser process is never
\* terminated by the execution, on any path.  stop_browser terminates it
\* after a readiness timeout, after a failed connect and in the finalizer
\* of the manager, so this is violated.
C14_BrowserNeverTerminated ==
    use_cdp_mode => browser # "terminated"

\* C15: the error surfaced when the browser executable is not found differs
\* from the error surfaced when the browser was started but its endpoint
\* never became ready.  Both are the same RuntimeError, so this is violated.
C15_SetupErrorsDistinct ==
    cause = "never_ready" =>
        setup_error # StartBrowserError(StartBrowserReturns("exe_not_found"))

\* scenario C: attached mode, nothing answers the readiness probe, now or
\* later
ScenarioC == use_cdp_mode /\ endpoint = "never"

\* C16: scenario C: the readiness polling ends, the session setup fails
\* with an error, no step is executed, execute returns no result, and the
\* outcome the supervisor persists is never "success".
C16_ScenarioC ==
    /\ [](ScenarioC =>
            /\ polls <= MaxPolls
            /\ ~is_cdp_ready
            /\ attempted = <<>> /\ step_results = <<>> /\ child_runs = 0
            /\ xpc \notin {"loop", "children", "cleanup", "return", "done"}
            /\ result = NoResult
            /\ exit_code # "zero"
            /\ persisted # "success")
    /\ <>[](ScenarioC =>
            /\ xpc = "failed"
            /\ (parsed.ok =>
                    setup_error \in {"cdp_cannot_start_browser", "cdp_cannot_connect"})
            /\ exit_code = "nonzero"
            /\ persisted = "failed")

C16_Witness ==
    /\ ScenarioC
    /\ polls = MaxPolls
    /\ cause = "never_ready"
    /\ persisted = "failed"

\* C17: a parse error aborts the flow before any browser interaction: no
\* session is created or attached, no step is executed, the process exits
\* non-zero and the supervisor persists a failed outcome.
C17_ParseErrorFailsFast ==
    /\ [](parsed # NotParsed /\ ~parsed.ok =>
            /\ setup_error = "parse_error"
            /\ xpc \in {"raise", "failed"}
            /\ ~connected /\ ~launched /\ pages = NoPages /\ polls = 0
            /\ (browser = "running" <=> cdp)
            /\ attempted = <<>> /\ step_results = <<>> /\ child_runs = 0
            /\ closed = 0
            /\ exit_code # "zero"
            /\ persisted # "success")
    /\ <>[](parsed # NotParsed /\ ~parsed.ok =>
            exit_code = "nonzero" /\ persisted = "failed")

C17_Witness ==
    /\ parsed.error.reason = "unknown_type"
    /\ parsed.error.position = 2
    /\ use_cdp_mode
    /\ persisted = "failed"

\* ---- error taxonomy

Classified == error # NoErrorInput /\ error_type # NoKind

MatchingRules ==
    {i \in 1..Len(ERROR_PATTERNS) :
        \E keyword \in ERROR_PATTERNS[i].keywords :
            IsSubstring(LowerAll(keyword), full_error(error))}

HasKeywordOf(M, t) == \E i \in M : ERROR_PATTERNS[i].error_type = t

HasText(keyword) == IsSubstring(keyword, full_error(error))

RulesBefore(t) ==
    {i \in 1..Len(ERROR_PATTERNS) :
        \A j \in 1..i : ERROR_PATTERNS[j].error_type # t}

\* C21: classify_error returns, for every error, the kind of the rule with
\* the lowest position among the rules one of whose keywords occurs, case
\* insensitively, in "exception kind + message", and UNKNOWN exactly when no
\* rule has such a keyword.
C21_FirstMatchTotal ==
    Classified =>
        LET M == MatchingRules
        IN  /\ error_type \in ErrorTypes
            /\ (error_type = "UNKNOWN") <=> (M = {})
            /\ M # {} =>
                   \E i \in M :
                       /\ \A j \in M : i <= j
                       /\ error_type = ERROR_PATTERNS[i].error_type

C21_Witness ==
    /\ Classified
    /\ \E i, j \in MatchingRules :
           ERROR_PATTERNS[i].error_type # ERROR_PATTERNS[j].error_type
    /\ error_type # "UNKNOWN"

\* C22 as stated: every text with a DNS or an SSL keyword together with
\* 'net::err_' or 'goto' is classified DNS_ERROR or SSL_ERROR; every text with
\* a manual-stop or a process-timeout keyword is classified as such; the text
\* 'browser disconnected' is BROWSER_CRASH.
C22_AsStated ==
    Classified =>
        LET M == MatchingRules
        IN  /\ (/\ HasKeywordOf(M, "DNS_ERROR") \/ HasKeywordOf(M, "SSL_ERROR")
                /\ HasText(<<"net::", "err_">>) \/ HasText(<<"goto">>))
                   => error_type \in {"DNS_ERROR", "SSL_ERROR"}
            /\ (HasKeywordOf(M, "MANUAL_STOP")
                    \/ HasKeywordOf(M, "PROCESS_TIMEOUT"))
                   => error_type \in {"MANUAL_STOP", "PROCESS_TIMEOUT"}
            /\ error = [type |-> "none",
                        message |-> <<"browser ", "disconnected">>]
                   => error_type = "BROWSER_CRASH"

\* C22: a text with a DNS or an SSL keyword is never classified NETWORK_ERROR
\* or NAVIGATION_ERROR, and it is classified SSL_ERROR or DNS_ERROR when no
\* rule placed before the SSL rule matches it; a text with a manual-stop
\* keyword is MANUAL_STOP, one with a process-timeout keyword is MANUAL_STOP
\* or PROCESS_TIMEOUT and never TIMEOUT; a text with 'browser disconnected'
\* is never CDP_DISCONNECTED, and the text 'browser disconnected' itself is
\* BROWSER_CRASH.
C22_Precedence ==
    Classified =>
        LET M == MatchingRules
        IN  /\ (HasKeywordOf(M, "DNS_ERROR") \/ HasKeywordOf(M, "SSL_ERROR"))
                   => /\ error_type \notin {"NETWORK_ERROR", "NAVIGATION_ERROR"}
                      /\ M \cap RulesBefore("SSL_ERROR") = {}
                             => error_type \in {"DNS_ERROR", "SSL_ERROR"}
            /\ HasKeywordOf(M, "MANUAL_STOP") => error_type = "MANUAL_STOP"
            /\ HasKeywordOf(M, "PROCESS_TIMEOUT")
                   => error_type \in {"MANUAL_STOP", "PROCESS_TIMEOUT"}
            /\ HasText(<<"browser ", "disconnected">>)
                   => error_type # "CDP_DISCONNECTED"
            /\ error = [type |-> "none",
                        message |-> <<"browser ", "disconnected">>]
                   => error_type = "BROWSER_CRASH"

C22_Witness ==
    /\ error = [type |-> "none",
                message |-> <<"net::", "ERR_", "NAME_NOT_RESOLVED">>]
    /\ error_type = "DNS_ERROR"

\* C23: for every declared error kind get_error_display_info returns the
\* entry of that kind, with a label, a description and a color that are not
\* empty, and only UNKNOWN gets the entry of UNKNOWN.
C23_DisplayInfoTotal ==
    (error_type \in ErrorTypes /\ info # NoInfo) =>
        /\ info.label # "" /\ info.description # "" /\ info.color # ""
        /\ error_type \in DOMAIN INFO_MAP /\ info = INFO_MAP[error_type]
        /\ error_type # "UNKNOWN" => info # INFO_MAP["UNKNOWN"]

C23_Witness ==
    /\ error = NoErrorInput
    /\ error_type = "DNS_ERROR"
    /\ info # NoInfo

\* ---- variables and nested steps

UsesParameter == executed.step.type \in {"navigate", "set_variable"}

Tokens(text) == {text[i] : i \in DOMAIN text}

\* the variables as they are after the first m - 1 child results of the
\* step run last
RECURSIVE ScopeAt(_)
ScopeAt(m) ==
    IF m = 1 THEN executed.scope_before
    ELSE DictUpdate(ScopeAt(m - 1), executed.results[m - 1].extracted_data)

\* C24: when a navigate or set_variable step uses '{{v}}' in its url or value
\* and a value was stored into v before the step ran, the parameter the step
\* used contains that value and not the placeholder.
C24_InterpolatedAtUse ==
    UsesParameter =>
        \A name \in ScopeNames :
            (/\ name \in Names(executed.scope_before)
             /\ Placeholder(name) \in Tokens(executed.step.text))
            => LET value == Get(executed.scope_before, name, <<>>) IN
               /\ IsSubstring(value, executed.used)
               /\ Placeholder(name) \notin Tokens(value)
                      => Placeholder(name) \notin Tokens(executed.used)

\* C25: a loop step with times = n and k children gives n * k child results,
\* those of the children in list order iteration after iteration; each child
\* resolved its parameter against the variables as the children before it
\* left them, and a child that failed is followed by the remaining ones.
C25_LoopRunsAllChildren ==
    executed.step.type = "loop" =>
        LET n == executed.step.times
            kids == executed.step.children
            k == Len(kids)
        IN  /\ executed.success
            /\ Len(executed.results) = n * k
            /\ \A m \in 1..(n * k) :
                   LET child == kids[((m - 1) % k) + 1]
                       res == executed.results[m]
                   IN  /\ res.step = child
                       /\ child.type \in {"navigate", "set_variable"}
                              => /\ res.success
                                 /\ res.used =
                                        resolve_variables(child.text, ScopeAt(m))
                       /\ child.type = "set_variable"
                              => Get(ScopeAt(m + 1), child.variable, <<>>)
                                     = res.used

C25_Witness ==
    /\ executed.step.type = "loop"
    /\ executed.step.times = 2
    /\ Len(executed.step.children) = 2
    /\ ~executed.results[1].success
    /\ executed.results[2].step.text = <<"u/", "{{v}}">>
    /\ executed.results[4].used = <<"u/", "u/", "a">>

\* C26: an if_else step runs the children of the then-branch when its
\* condition is true and those of the else-branch otherwise, also for a
\* condition type that is not known and a condition that raises; the other
\* branch gives no child result, and with an empty chosen branch the step
\* succeeds without running anything.
C26_ExactlyOneBranch ==
    executed.step.type = "if_else" =>
        LET outcome == EvaluateCondition(executed.step, executed.scope_before)
            chosen == IF outcome = "true" THEN executed.step.children
                      ELSE executed.step.else_children
        IN  /\ executed.success
            /\ executed.branch = (IF outcome = "true" THEN "then" ELSE "else")
            /\ Len(executed.results) = Len(chosen)
            /\ \A m \in 1..Len(chosen) : executed.results[m].step = chosen[m]
            /\ chosen = <<>> =>
                   /\ executed.results = <<>>
                   /\ \A name \in ScopeNames :
                          Get(variables, name, <<"-">>)
                              = Get(executed.scope_before, name, <<"-">>)

C26_Witness ==
    /\ executed.step.type = "if_else"
    /\ EvaluateCondition(executed.step, executed.scope_before) = "raised"
    /\ executed.step.children # <<>>
    /\ executed.step.else_children # <<>>
    /\ executed.step.children # executed.step.else_children
    /\ executed.branch = "else"
    /\ Len(executed.results) = Len(executed.step.else_children)

\* ---- challenge handler

HasMarker(selectors) == \E sel \in Range(selectors) : Exists(page, sel)

HasVisible(selectors) == \E sel \in Range(selectors) : Visible(page, sel)

\* C27: with the handler enabled, every navigation that was made, a failed
\* one and one made by a child step included, is followed at once by a
\* challenge check that is not the pre-step check of the next step.
C27_CheckAfterEveryNavigate ==
    cf_enabled =>
        \A i \in DOMAIN cf_log :
            cf_log[i].event = "navigate" =>
                /\ i < Len(cf_log)
                /\ cf_log[i + 1].event = "check"
                /\ cf_log[i + 1].phase = "post"

\* C28: with a title that matches, the detection gives turnstile when a
\* turnstile marker is present, else hcaptcha when an hcaptcha marker is
\* present, else page; with a title that does not match it gives turnstile
\* when a turnstile element is visible, else page when a challenge-page
\* element is visible, else none.
C28_ProbeOrder ==
    (cf_pc = "off" /\ challenge # NotDetected /\ page.title # NoTitle) =>
        challenge =
            IF TitleMatches(page)
            THEN IF HasMarker(TURNSTILE_SELECTORS) THEN "turnstile"
                 ELSE IF HasMarker(hcaptcha_selectors) THEN "hcaptcha"
                 ELSE "page"
            ELSE IF HasVisible(TURNSTILE_SELECTORS) THEN "turnstile"
                 ELSE IF HasVisible(CF_PAGE_SELECTORS) THEN "page"
                 ELSE "none"

\* ---- executions attached to one browser

Attached == {e \in Execs : sh_pc[e] \in {"newpage", "running"}}

\* C29: at most max_concurrent_tasks executions are attached to the browser
\* and running at any time.
C29_BoundedConcurrency == Cardinality(Attached) <= max_concurrent_tasks

\* C30: two executions that run at the same time never run on the same page,
\* every execution runs on a page it opened itself, and its cleanup closes
\* that page and no other.
C30_OwnPageOnly ==
    /\ \A e1, e2 \in Execs :
           (e1 # e2 /\ sh_pc[e1] = "running" /\ sh_pc[e2] = "running")
               => sh_page[e1] # sh_page[e2]
    /\ \A e \in Execs :
           sh_pc[e] \in {"running", "done"} => sh_page[e] = e
    /\ \A e \in Execs :
           sh_pc[e] = "done" => sh_closed[e] = {sh_page[e]}

\* ---- completion handlers and later executions

\* C32: the completion handler of an execution never signals, ends or
\* untracks the process of another execution: a process other than its own
\* that is alive stays as it is, and stays in the registry if it was there.
C32_HandlerSparesOthers ==
    [][\A p \in Pids :
         (HandlerStopBegin(p) \/ HandlerStopEnd(p)) =>
            \A q \in Pids \ {p} :
                Alive(q) =>
                    /\ proc'[q] = proc[q]
                    /\ processes[proc[q].flow] = q
                           => processes'[proc[q].flow] = q]_vars

\* C33: when the wait for completion times out on a process that has not
\* exited, the handler writes a failed record for the execution, and once
\* the handler has finished the process is neither alive nor tracked.
C33_HungExecutionReaped ==
    /\ [][\A p \in Pids :
            (HandlerComplete(p) /\ Alive(p)) =>
                \E r \in DOMAIN history' :
                    r.exec = p /\ r.status = "failed" /\ r.has_error]_vars
    /\ [](\A p \in Pids :
            hpc[p] = "done" =>
                /\ ~Alive(p)
                /\ processes[proc[p].flow] # p)

\* ---- the record of a finished execution

KindsOfFailed ==
    {Failed(cm_in.step_results)[i].kind :
        i \in DOMAIN Failed(cm_in.step_results)} \ {"none"}

\* C31: the error_types of the record written for an execution lists, in
\* ascending order and without duplicates, exactly the kinds the errors of
\* its failed steps are tagged with; it is empty when no step failed.
C31_ErrorKindsSortedSet ==
    cm_rec # NoHistory =>
        LET E == cm_rec.error_types IN
        /\ {E[i] : i \in DOMAIN E} = {<<k>> : k \in KindsOfFailed}
        /\ \A i, j \in DOMAIN E :
               i < j => KindRank[E[i][1]] < KindRank[E[j][1]]
        /\ Failed(cm_in.step_results) = <<>> => E = <<>>

\* two failed steps, tagged TIMEOUT and then ASSERTION_FAILED
C31_Witness ==
    /\ cm_rec # NoHistory
    /\ Len(cm_in.step_results) = 2
    /\ cm_in.step_results[1].kind = "TIMEOUT"
    /\ cm_in.step_results[2].kind = "ASSERTION_FAILED"
    /\ cm_rec.error_types = <<<<"ASSERTION_FAILED">>, <<"TIMEOUT">>>>

OutputSaysSuccess ==
    /\ ~cm_in.timed_out /\ cm_in.returncode = "zero"
    /\ cm_in.stdout = "json" /\ cm_in.status = "success"

StatusConsistent ==
    /\ cm_rec.status \in {"success", "failed"}
    /\ cm_rec.status = "success" <=> OutputSaysSuccess
    /\ cm_rec.status = "success" => cm_rec.error_message.none
    /\ cm_rec.status = "failed" =>
          /\ ~cm_rec.error_message.none
          /\ cm_rec.error_message.text # <<>> \/ cm_rec.error_message.parts # <<>>

\* the message is the summary of the failed steps, with their step numbers
IsStepSummary ==
    /\ cm_rec.error_message.parts # <<>>
    /\ \A i \in DOMAIN cm_rec.error_message.parts :
          cm_rec.error_message.parts[i].step_num =
              Failed(cm_in.step_results)[i].step_index + 1

IsStderr == cm_in.stderr # <<>> /\ cm_rec.error_message.text = cm_in.stderr

IsFixedText ==
    cm_rec.error_message.text \in
        {<<"Execution failed">>, <<"Invalid JSON output">>, <<"Executed steps">>}

\* the text of the exception caught at executor.py:164
IsExceptionText ==
    /\ cm_in.timed_out \/ cm_in.stdout = "badshape"
    /\ cm_rec.error_message.text \in
          {<<"timed out after 300 seconds">>, <<"object has no attribute 'get'">>}

\* C34 as stated: the record is consistent, and the message of a failed
\* record is the step summary, the stderr of the process or a fixed text.
C34_AsStated ==
    cm_rec # NoHistory =>
        /\ StatusConsistent
        /\ cm_rec.status = "failed" =>
              IsStepSummary \/ IsStderr \/ IsFixedText

\* C34: the status of a record is success iff the process exited 0 and its
\* output reports "success" (a partial run is recorded as failed); a success
\* record has no error message; a failed record has a non-empty one: the
\* step-numbered summary, the stderr, a fixed text, or the text of the
\* exception caught while waiting for the process or reading its output.
C34_RecordConsistent ==
    cm_rec # NoHistory =>
        /\ StatusConsistent
        /\ cm_rec.status = "failed" =>
              IsStepSummary \/ IsStderr \/ IsFixedText \/ IsExceptionText

\* a partial run: exit 0, one step of two failed, recorded as failed with
\* the summary of step 2
C34_Witness ==
    /\ cm_rec.status = "failed"
    /\ cm_in.returncode = "zero" /\ cm_in.status = "partial"
    /\ Len(cm_rec.error_message.parts) = 1
    /\ cm_rec.error_message.parts[1].step_num = 2

\* ---- challenge checks

C38_AssertionKind ==
    error.type = "AssertionError" => error_type = "ASSERTION_FAILED"

\* C36: a click step whose selector holds the placeholder of a variable of
\* the current scope acts as the click with the placeholder replaced by the
\* variable's value does: same outcome, same selector handed to the page.
C36_SelectorInterpolated ==
    (/\ executed.step.type = "click"
     /\ \E name \in Names(executed.scope_before) :
            \E i \in DOMAIN executed.step.text :
                executed.step.text[i] = Placeholder(name))
    => LET resolved == resolve_variables(executed.step.text,
                                         executed.scope_before)
           r == handle_click([executed.step EXCEPT !.text = resolved],
                             executed.scope_before)
       IN  /\ executed.success = r.success
           /\ executed.used = r.used

\* C37: the calls that hold a slot of the limiter are never more than
\* max_concurrent_tasks, the slots held and the slots free always add up to
\* max_concurrent_tasks (a call that returned or raised holds none), and
\* when the running calls finish every waiting call gets a slot.
C37_LimiterBound ==
    /\ [](/\ Cardinality(Inside) <= max_concurrent_tasks
          /\ Cardinality(Inside) + semaphore.value = max_concurrent_tasks
          /\ \A e \in Execs :
                (lim_pc[e] = "waiting") <=>
                    (\E i \in DOMAIN semaphore.waiters :
                        semaphore.waiters[i] = e))
    /\ \A e \in Execs : (lim_pc[e] = "waiting") ~> (e \in Inside)

\* every slot is taken, by calls at each point between connecting and
\* closing, and one more call waits
C37_Witness ==
    /\ Cardinality(Inside) = max_concurrent_tasks
    /\ \E e \in Inside : lim_pc[e] = "closing" /\ lim_out[e] = "exception"
    /\ semaphore.waiters # <<>>

====
